---------------------------- MODULE Spec2Model ----------------------------
(***************************************************************************)
(* Knowledge graph (entities, relationships, name/alias index) and the     *)
(* LLM entity resolver of tiny_graph_rag.                                  *)
(*                                                                         *)
(* The resolver (LLMEntityResolver) is translated from                     *)
(* src/tiny_graph_rag/graph/entity_resolution.py.  The graph container     *)
(* (Entity, Relationship, KnowledgeGraph of graph/models.py) is not part   *)
(* of the available sources; its operations are written from sections 3    *)
(* and 4.1 of the specification and from the way tests/test_graph.py uses  *)
(* them.                                                                   *)
(***************************************************************************)
EXTENDS Integers, Sequences, FiniteSets, TLC

VARIABLES
    entities,       \* KnowledgeGraph.entities: entity id -> Entity record
    relationships,  \* KnowledgeGraph.relationships: sequence of Relationship
    index,          \* the derived index: lowercase name or alias -> entity id
    nextId,         \* the id the next constructed Entity carries
    rep,            \* history: the entity each id has been merged into
    pc,             \* position of resolve(): idle, batch, apply, done, raised
    plist,          \* resolve(): person_like_entities, as a sequence of ids
    start,          \* resolve(): the loop variable of the batch loop
    response,       \* what chat_json answered for the batch in progress
    startIds,       \* history: the entity ids present when resolve() began
    blockedAtStart, \* history: pairs joined by a non-merge edge at that time
    objects,        \* resolve(): the Entity objects person_like_entities holds
    request,        \* the user prompt handed to chat_json for the batch
    last,           \* history: the operation performed last and its result
    hist            \* history: what consecutive resolve() calls proposed

vars == <<entities, relationships, index, nextId, rep, pc, plist, start,
          response, startIds, blockedAtStart, objects, request, last, hist>>

graphVars == <<entities, relationships, index, nextId, rep>>
resolveVars == <<pc, plist, start, response, startIds, blockedAtStart,
                 objects, request>>

-----------------------------------------------------------------------------
(* Bounds of the model *)

MaxEntities == 4        \* entity ids are 1..MaxEntities
GraphMaxEntities == 3   \* entities inserted when only graph operations run
MaxRels == 2            \* relationships held at once (graph operations)
MaxAliases == 2         \* aliases one entity may hold after add_entity

Ids == 1..MaxEntities
NoId == 0               \* "no entity": None

-----------------------------------------------------------------------------
(* Strings.  Names and aliases are drawn from NameStrings; str.lower() is  *)
(* modelled on them by Lower.                                              *)

NameStrings == {"Kim", "kim", "wife", "calf", "inn"}

Lower(s) == IF s = "Kim" THEN "kim" ELSE s

KeySet == {Lower(s) : s \in NameStrings}

EntityTypes == {"PERSON", "OTHER"}

Range(f) == {f[i] : i \in DOMAIN f}

\* str containment on descriptions: a description is a sequence of words,
\* `sub in full` is containment of a contiguous run of words.
Contained(sub, full) ==
    \E i \in 0..(Len(full) - Len(sub)) :
        \A j \in 1..Len(sub) : full[i + j] = sub[j]

\* An ordered set: s followed by the elements of t not yet present.
RECURSIVE AppendNew(_, _)
AppendNew(s, t) ==
    IF t = <<>> THEN s
    ELSE AppendNew(IF Head(t) \in Range(s) THEN s ELSE Append(s, Head(t)), Tail(t))

RECURSIVE Without(_, _)
Without(s, x) ==
    IF s = <<>> THEN <<>>
    ELSE IF Head(s) = x THEN Without(Tail(s), x)
    ELSE <<Head(s)>> \o Without(Tail(s), x)

-----------------------------------------------------------------------------
(* Entity and the index *)

Entity(n, t, d, a, c) ==
    [name |-> n, entity_type |-> t, description |-> d, aliases |-> a,
     source_chunks |-> c]

\* History: the argument of an operation that takes no entity.
NoArg == Entity("", "", <<>>, <<>>, {})

\* The index keys an entity answers to: its name and aliases, lowercased.
EntityKeys(e) == {Lower(e.name)} \cup {Lower(a) : a \in Range(e.aliases)}

Owners(ents, k) == {i \in DOMAIN ents : k \in EntityKeys(ents[i])}

\* Rebuilding the index from the entity map.  Where two entities answer to
\* the same key, the specification does not say which entry overwrites the
\* other: every outcome is a possible index.
RECURSIVE IndexChoices(_, _)
IndexChoices(ents, ks) ==
    IF ks = {} THEN {<<>>}
    ELSE LET k == CHOOSE x \in ks : TRUE
             cands == IF Owners(ents, k) = {} THEN {NoId} ELSE Owners(ents, k)
         IN  {(k :> v) @@ f : v \in cands, f \in IndexChoices(ents, ks \ {k})}

RebuildIndex(ents) == IndexChoices(ents, KeySet)

get_entity(ents, id) == IF id \in DOMAIN ents THEN id ELSE NoId

get_entity_by_name(ents, idx, name) ==
    IF idx[Lower(name)] \in DOMAIN ents THEN idx[Lower(name)] ELSE NoId

\* A merge_with that keeps self as it is.
merge_with_keeping_self(self, other) == self

\* Entity.merge_with as add_entity uses it: description, aliases and
\* source_chunks of other are taken into self.
merge_with(self, other) ==
    [self EXCEPT
        !.description =
            IF other.description # <<>>
               /\ ~Contained(other.description, self.description)
            THEN self.description \o other.description
            ELSE self.description,
        !.aliases = Without(AppendNew(self.aliases, other.aliases), self.name),
        !.source_chunks = self.source_chunks \cup other.source_chunks]

-----------------------------------------------------------------------------
(* KnowledgeGraph.add_entity *)

\* The entities the index matches e.name or one of e.aliases to.
AddMatches(ents, idx, e) ==
    {idx[k] : k \in EntityKeys(e)} \cap DOMAIN ents

\* Indexing the name and aliases of entity x after it absorbed another: an
\* unindexed key is set; for a key indexed to another entity the entry is
\* either overwritten or kept.
RECURSIVE AbsorbChoices(_, _, _, _)
AbsorbChoices(idx, x, keys, ks) ==
    IF ks = {} THEN {<<>>}
    ELSE LET k == CHOOSE y \in ks : TRUE
             cands == IF k \in keys THEN {x} \cup ({idx[k]} \ {NoId})
                      ELSE {idx[k]}
         IN  {(k :> v) @@ f : v \in cands,
                              f \in AbsorbChoices(idx, x, keys, ks \ {k})}

IndexAbsorbed(idx, x, ex) == AbsorbChoices(idx, x, EntityKeys(ex), KeySet)

IndexInserted(idx, x, e) ==
    [k \in KeySet |-> IF k \in EntityKeys(e) THEN x ELSE idx[k]]

AddEntity(e, cap) ==
    /\ pc = "idle"
    /\ LET m == AddMatches(entities, index, e) IN
        IF m # {}
        THEN \E x \in m :
                LET ex == merge_with(entities[x], e) IN
                /\ Len(ex.aliases) <= MaxAliases
                /\ entities' = [entities EXCEPT ![x] = ex]
                /\ index' \in IndexAbsorbed(index, x, ex)
                /\ nextId' = nextId
                /\ last' = [op |-> "add_entity", arg |-> e, res |-> {}, loops |-> 0, dropped |-> 0, a |-> NoId, b |-> NoId,
                            ret |-> x, tag |-> "absorbed", n |-> 0]
        ELSE /\ nextId <= cap
             /\ Len(e.aliases) <= MaxAliases
             /\ entities' = (nextId :> e) @@ entities
             /\ index' = IndexInserted(index, nextId, e)
             /\ nextId' = nextId + 1
             /\ last' = [op |-> "add_entity", arg |-> e, res |-> {}, loops |-> 0, dropped |-> 0, a |-> NoId, b |-> NoId,
                         ret |-> nextId, tag |-> "inserted", n |-> 0]
    /\ UNCHANGED <<relationships, rep>>
    /\ UNCHANGED resolveVars

-----------------------------------------------------------------------------
(* KnowledgeGraph.add_relationship and the relationship queries *)

RelTypes == {"MARRIED_TO", "same_as", "HELPS"}

Relationship(s, t, ty) ==
    [source_entity_id |-> s, target_entity_id |-> t, relationship_type |-> ty,
     description |-> ""]

Described(r, text) == [r EXCEPT !.description = text]

Triple(r) == <<r.source_entity_id, r.target_entity_id, r.relationship_type>>

\* An add_relationship that skips a relationship already held, by source,
\* target and type.
AddRelationshipDedup(r, cap) ==
    /\ pc = "idle"
    /\ Len(relationships) < cap
    /\ relationships' =
        IF \E i \in DOMAIN relationships : Triple(relationships[i]) = Triple(r)
        THEN relationships ELSE Append(relationships, r)
    /\ last' = [op |-> "add_relationship", arg |-> NoArg, res |-> {}, loops |-> 0, dropped |-> 0, a |-> NoId, b |-> NoId,
                ret |-> 0, tag |-> "", n |-> 0]
    /\ UNCHANGED <<entities, index, nextId, rep>>
    /\ UNCHANGED resolveVars

AddRelationship(r, cap) ==
    /\ pc = "idle"
    /\ Len(relationships) < cap
    /\ relationships' = Append(relationships, r)
    /\ last' = [op |-> "add_relationship", arg |-> NoArg, res |-> {}, loops |-> 0, dropped |-> 0, a |-> NoId, b |-> NoId,
                ret |-> 0, tag |-> "", n |-> 0]
    /\ UNCHANGED <<entities, index, nextId, rep>>
    /\ UNCHANGED resolveVars

\* get_relationships_for_entity: the edges where id is source or target.
RelsFor(rels, id) ==
    SelectSeq(rels, LAMBDA r : r.source_entity_id = id \/ r.target_entity_id = id)

\* The ids one relationship away from an id of S, along it or against it.
\* Directed: only along the relationships.
AdjacentOutgoing(rels, S) ==
    {rels[i].target_entity_id : i \in {j \in DOMAIN rels : rels[j].source_entity_id \in S}}

Adjacent(rels, S) ==
    {rels[i].target_entity_id : i \in {j \in DOMAIN rels : rels[j].source_entity_id \in S}}
    \cup
    {rels[i].source_entity_id : i \in {j \in DOMAIN rels : rels[j].target_entity_id \in S}}

\* Breadth-first expansion: one level per hop, from the ids reached last.
RECURSIVE Expand(_, _, _, _)
Expand(rels, visited, frontier, hops) ==
    IF hops = 0 \/ frontier = {} THEN visited
    ELSE LET next == Adjacent(rels, frontier) \ visited
         IN  Expand(rels, visited \cup next, next, hops - 1)

get_neighbors(rels, id, hops) == Expand(rels, {id}, {id}, hops) \ {id}

GetNeighbors(id, hops) ==
    /\ pc = "idle"
    /\ last' = [op |-> "get_neighbors", arg |-> NoArg,
                res |-> get_neighbors(relationships, id, hops),
                loops |-> 0, dropped |-> 0, a |-> id, b |-> NoId, ret |-> 0,
                tag |-> "", n |-> hops]
    /\ UNCHANGED graphVars
    /\ UNCHANGED resolveVars

-----------------------------------------------------------------------------
(* KnowledgeGraph.merge_entities *)

\* A test that lets an entity be merged into itself.
MergeOkAllowingSame(ents, c, d) == c \in DOMAIN ents /\ d \in DOMAIN ents

MergeOk(ents, c, d) == c \in DOMAIN ents /\ d \in DOMAIN ents /\ c # d

\* The canonical entity after absorbing the duplicate.
MergedEntity(ce, de) ==
    [ce EXCEPT
        !.description =
            IF de.description # <<>>
               /\ ~Contained(de.description, ce.description)
            THEN ce.description \o de.description
            ELSE ce.description,
        !.aliases =
            AppendNew(
                IF de.name = ce.name THEN ce.aliases
                ELSE AppendNew(ce.aliases, <<de.name>>),
                de.aliases),
        !.source_chunks = ce.source_chunks \cup de.source_chunks]

\* A rewrite that forgets the target side.
RewriteRelSourceOnly(r, c, d) ==
    [r EXCEPT !.source_entity_id = IF @ = d THEN c ELSE @]

RewriteRel(r, c, d) ==
    [r EXCEPT
        !.source_entity_id = IF @ = d THEN c ELSE @,
        !.target_entity_id = IF @ = d THEN c ELSE @]

RECURSIVE RewriteAll(_, _, _)
RewriteAll(rels, c, d) ==
    IF rels = <<>> THEN <<>>
    ELSE <<RewriteRel(Head(rels), c, d)>> \o RewriteAll(Tail(rels), c, d)

\* A merge step that keeps the self-loops.
DropSelfLoopsNot(rels, c) == rels

DropSelfLoops(rels, c) ==
    SelectSeq(rels,
        LAMBDA r : ~(r.source_entity_id = c /\ r.target_entity_id = c))

\* A deduplication that keeps the last of the relationships that share
\* source, target and type.
RECURSIVE DedupRelsKeepingLast(_, _)
DedupRelsKeepingLast(rels, seen) ==
    IF rels = <<>> THEN <<>>
    ELSE IF \E i \in DOMAIN Tail(rels) : Triple(Tail(rels)[i]) = Triple(Head(rels))
    THEN DedupRelsKeepingLast(Tail(rels), seen)
    ELSE <<Head(rels)>> \o DedupRelsKeepingLast(Tail(rels), seen)

\* Keep the first of the relationships that share source, target and type.
RECURSIVE DedupRels(_, _)
DedupRels(rels, seen) ==
    IF rels = <<>> THEN <<>>
    ELSE IF Triple(Head(rels)) \in seen THEN DedupRels(Tail(rels), seen)
    ELSE <<Head(rels)>> \o DedupRels(Tail(rels), seen \cup {Triple(Head(rels))})

\* A merge that deletes the duplicate's relationships instead of rewriting.
MergeRelsDeleting(rels, c, d) ==
    DedupRels(
        SelectSeq(rels,
            LAMBDA r : r.source_entity_id # d /\ r.target_entity_id # d),
        {})

MergeRels(rels, c, d) == DedupRels(DropSelfLoops(RewriteAll(rels, c, d), c), {})

MergeEnts(ents, c, d) ==
    [i \in DOMAIN ents \ {d} |->
        IF i = c THEN MergedEntity(ents[c], ents[d]) ELSE ents[i]]

\* The graph as a record, for the operations the resolver chains.
Graph(ents, rels) == [entities |-> ents, relationships |-> rels]

merge_entities(g, c, d) ==
    IF MergeOk(g.entities, c, d)
    THEN Graph(MergeEnts(g.entities, c, d), MergeRels(g.relationships, c, d))
    ELSE g

\* History: every id that stood for d now stands for c.
RepAfter(r, c, d) == [i \in DOMAIN r |-> IF r[i] = d THEN c ELSE r[i]]

\* History: how many relationships join d to an id other than c and d.
RefCount(rels, c, d) ==
    Cardinality({i \in DOMAIN rels :
        \/ /\ rels[i].source_entity_id = d
           /\ rels[i].target_entity_id \notin {c, d}
        \/ /\ rels[i].target_entity_id = d
           /\ rels[i].source_entity_id \notin {c, d}})

\* History: how many relationships run between c and d, or from d to d.
LoopCount(rels, c, d) ==
    Cardinality({i \in DOMAIN rels :
        /\ rels[i].source_entity_id \in {c, d}
        /\ rels[i].target_entity_id \in {c, d}
        /\ ~(rels[i].source_entity_id = c /\ rels[i].target_entity_id = c)})

MergeEntities(c, d) ==
    /\ pc = "idle"
    /\ IF MergeOk(entities, c, d)
       THEN /\ entities' = MergeEnts(entities, c, d)
            /\ relationships' = MergeRels(relationships, c, d)
            /\ index' \in RebuildIndex(entities')
            /\ rep' = RepAfter(rep, c, d)
            /\ last' = [op |-> "merge_entities", arg |-> NoArg, res |-> {},
                        loops |-> LoopCount(relationships, c, d),
                        dropped |-> Len(relationships)
                                      - Len(MergeRels(relationships, c, d)),
                        a |-> c, b |-> d, ret |-> 1,
                        tag |-> "merged", n |-> RefCount(relationships, c, d)]
       ELSE /\ UNCHANGED <<entities, relationships, index, rep>>
            /\ last' = [op |-> "merge_entities", arg |-> NoArg, res |-> {},
                        loops |-> 0, dropped |-> 0, a |-> c, b |-> d,
                        ret |-> 0,
                        tag |-> IF c = d THEN "same"
                                ELSE IF c \notin DOMAIN entities
                                THEN "no_canonical" ELSE "no_duplicate",
                        n |-> 0]
    /\ UNCHANGED nextId
    /\ UNCHANGED resolveVars

-----------------------------------------------------------------------------
(* KnowledgeGraph.to_dict / from_dict *)

\* The ids of a mapping in dict order.  Ids are handed out in increasing
\* order and a merge keeps the canonical's slot, so dict order is id order.
RECURSIVE SortedIds(_)
SortedIds(S) ==
    IF S = {} THEN <<>>
    ELSE LET m == CHOOSE x \in S : \A y \in S : x <= y
         IN  <<m>> \o SortedIds(S \ {m})

EntityToDict(id, e) ==
    [entity_id |-> id, name |-> e.name, entity_type |-> e.entity_type,
     description |-> e.description, aliases |-> e.aliases,
     source_chunks |-> e.source_chunks]

to_dict(ents, rels) ==
    [entities |-> [i \in 1..Cardinality(DOMAIN ents) |->
                      EntityToDict(SortedIds(DOMAIN ents)[i],
                                   ents[SortedIds(DOMAIN ents)[i]])],
     relationships |-> rels]

\* from_dict: the id map and the relationship list; the index is rebuilt
\* by the caller of this operator (it is not part of the mapping).
from_dict(data) ==
    Graph(
        [id \in {data.entities[i].entity_id : i \in DOMAIN data.entities} |->
            LET x == CHOOSE i \in DOMAIN data.entities :
                        data.entities[i].entity_id = id
            IN  Entity(data.entities[x].name, data.entities[x].entity_type,
                       data.entities[x].description, data.entities[x].aliases,
                       data.entities[x].source_chunks)],
        data.relationships)

FromDict ==
    /\ pc = "idle"
    /\ entities # <<>>
    /\ LET g == from_dict(to_dict(entities, relationships)) IN
        /\ entities' = g.entities
        /\ relationships' = g.relationships
        /\ index' \in RebuildIndex(g.entities)
    /\ last' = [op |-> "from_dict", arg |-> NoArg, res |-> {}, loops |-> 0, dropped |-> 0, a |-> NoId, b |-> NoId, ret |-> 0,
                tag |-> "", n |-> 0]
    /\ UNCHANGED <<nextId, rep>>
    /\ UNCHANGED resolveVars

-----------------------------------------------------------------------------
(* The graph operations alone *)

\* Entities as the extraction step hands them to add_entity.
GraphMentions ==
    { Entity("Kim", "PERSON", <<"tall">>, <<>>, {1}),
      Entity("kim", "OTHER", <<"driver">>, <<"calf">>, {2}),
      Entity("calf", "PERSON", <<>>, <<>>, {}),
      Entity("wife", "OTHER", <<>>, <<>>, {}) }

GraphIds == 1..GraphMaxEntities

\* Relationships as add_relationship receives them: endpoints need not be
\* entities of the graph, and an edge may run from an id to itself.
GraphRelInputs ==
    {Relationship(p[1], p[2], "HELPS") :
        p \in {<<1, 2>>, <<2, 1>>, <<1, 3>>, <<3, 1>>, <<2, 2>>}}
    \cup {Relationship(1, 3, "MARRIED_TO"),
          Described(Relationship(2, 3, "HELPS"), "said")}

NoResponse == [kind |-> "none", groups |-> <<>>]

NoRequest == <<>>       \* no request is in flight

NoLast ==
    [op |-> "", arg |-> NoArg, res |-> {}, loops |-> 0, dropped |-> 0, a |-> NoId, b |-> NoId, ret |-> 0, tag |-> "", n |-> 0]

\* No resolve() has been called since the graph was last built up.
NoHist ==
    [run |-> 0, proposed |-> {}, prev |-> {}, names |-> <<>>,
     ents |-> 0, rels |-> 0, calls |-> 0, batches |-> {}]

Init ==
    /\ entities = <<>>
    /\ relationships = <<>>
    /\ index = [k \in KeySet |-> NoId]
    /\ nextId = 1
    /\ rep = [i \in Ids |-> i]
    /\ pc = "idle"
    /\ plist = <<>>
    /\ start = 0
    /\ response = NoResponse
    /\ startIds = {}
    /\ blockedAtStart = {}
    /\ objects = <<>>
    /\ request = NoRequest
    /\ last = NoLast
    /\ hist = NoHist

NextGraph ==
    \/ \E e \in GraphMentions : AddEntity(e, GraphMaxEntities) /\ UNCHANGED hist
    \/ \E r \in GraphRelInputs : AddRelationship(r, MaxRels) /\ UNCHANGED hist
    \/ \E c \in GraphIds, d \in GraphIds : MergeEntities(c, d) /\ UNCHANGED hist
    \/ FromDict /\ UNCHANGED hist

SpecGraph == Init /\ [][NextGraph]_vars

-----------------------------------------------------------------------------
(* A graph and its neighbourhood queries *)

MaxHops == 3            \* get_neighbors is asked for 1..MaxHops hops
NeighborMaxRels == 3    \* relationships of the graph that is queried

\* The k-th entity added.
NeighborMentions(k) ==
    {Entity(<<"Kim", "wife", "calf", "inn">>[((k - 1) % 4) + 1], "OTHER",
            <<>>, <<>>, {})}

\* A chain, edges against it, a way back to 1 and a self-loop.
NeighborRelInputs ==
    {Relationship(p[1], p[2], "HELPS") :
        p \in {<<1, 2>>, <<2, 1>>, <<2, 3>>, <<3, 2>>, <<3, 4>>, <<3, 1>>,
               <<4, 1>>, <<1, 1>>}}

NextNeighbors ==
    \/ \E e \in NeighborMentions(nextId) : AddEntity(e, MaxEntities) /\ UNCHANGED hist
    \/ \E r \in NeighborRelInputs : AddRelationship(r, NeighborMaxRels) /\ UNCHANGED hist
    \/ \E id \in Ids, hops \in 1..MaxHops : GetNeighbors(id, hops) /\ UNCHANGED hist

SpecNeighbors == Init /\ [][NextNeighbors]_vars

-----------------------------------------------------------------------------
(* EntityResolutionConfig (default_config) and LLMEntityResolver fields *)

\* The terms of default_config() that occur in the strings of this model.
person_like_keywords == {"wife", "driver"}
generic_role_terms == {"wife", "driver"}
non_merge_relation_types ==
    {"MARRIED_TO", "PARENT_OF", "CHILD_OF", "SIBLING_OF", "FRIEND_OF", "KNOWS"}

min_confidence == 75            \* 0.75, in hundredths
max_entities_per_pass == 2      \* the resolver's batch size (a field; 80 by default)

\* str.upper() on relationship types.
Upper(ty) == IF ty = "same_as" THEN "SAME_AS" ELSE ty

\* f"{name} {description}".lower(), as the set of its words.  No word of
\* this model contains a keyword without being that keyword, so
\* `keyword in text` is membership.
TextWords(e) == {Lower(e.name)} \cup Range(e.description)

_is_person_like_entity(e) ==
    \/ e.entity_type = "PERSON"
    \/ \E keyword \in person_like_keywords : keyword \in TextWords(e)

\* self._generic_role_pattern.match(name): the whole name is one term.
MatchesGenericRole(name) == name \in generic_role_terms

_get_direct_relation_types(rels, left_id, right_id) ==
    {Upper(rels[i].relationship_type) : i \in
        {j \in DOMAIN rels :
            \/ /\ rels[j].source_entity_id = left_id
               /\ rels[j].target_entity_id = right_id
            \/ /\ rels[j].source_entity_id = right_id
               /\ rels[j].target_entity_id = left_id}}

_is_non_mergeable_pair(rels, left_id, right_id) ==
    _get_direct_relation_types(rels, left_id, right_id)
        \cap non_merge_relation_types # {}

\* The sort key of a candidate: (score, entity_id), score being
\* (vote_score, person_bonus, role_penalty, relation_count).
\* A key that ranks the PERSON bonus above the votes.
CandidateKeyBonusFirst(g, votes, id) ==
    <<IF g.entities[id].entity_type = "PERSON" THEN 1 ELSE 0,
      IF id \in DOMAIN votes THEN votes[id] ELSE 0,
      IF MatchesGenericRole(g.entities[id].name) THEN -1 ELSE 0,
      Len(RelsFor(g.relationships, id)),
      id>>

CandidateKey(g, votes, id) ==
    <<IF id \in DOMAIN votes THEN votes[id] ELSE 0,
      IF g.entities[id].entity_type = "PERSON" THEN 1 ELSE 0,
      IF MatchesGenericRole(g.entities[id].name) THEN -1 ELSE 0,
      Len(RelsFor(g.relationships, id)),
      id>>

\* Tuple order of Python on keys of equal length.
RECURSIVE KeyLess(_, _)
KeyLess(x, y) ==
    IF x = <<>> THEN FALSE
    ELSE IF Head(x) # Head(y) THEN Head(x) < Head(y)
    ELSE KeyLess(Tail(x), Tail(y))

\* candidates.sort(reverse=True); candidates[0][1]
_select_canonical_id(g, entity_ids, votes) ==
    LET live == {id \in Range(entity_ids) : id \in DOMAIN g.entities} IN
    IF live = {} THEN NoId
    ELSE CHOOSE id \in live :
            \A other \in live \ {id} :
                KeyLess(CandidateKey(g, votes, other), CandidateKey(g, votes, id))

\* The graph together with the merged-into history.
World(ents, rels, r) == [entities |-> ents, relationships |-> rels, rep |-> r]

MergeWorld(w, c, d) ==
    IF MergeOk(w.entities, c, d)
    THEN World(MergeEnts(w.entities, c, d), MergeRels(w.relationships, c, d),
               RepAfter(w.rep, c, d))
    ELSE w

-----------------------------------------------------------------------------
(* LLMEntityResolver._merge_explicit_alias_relationships *)

IsAliasEdge(g, rel) ==
    /\ Upper(rel.relationship_type) \in {"ALIAS_OF", "SAME_AS"}
    /\ rel.source_entity_id \in DOMAIN g.entities
    /\ rel.target_entity_id \in DOMAIN g.entities
    /\ _is_person_like_entity(g.entities[rel.source_entity_id])
    /\ _is_person_like_entity(g.entities[rel.target_entity_id])

RECURSIVE AliasEdges(_, _)
AliasEdges(g, rels) ==
    IF rels = <<>> THEN <<>>
    ELSE (IF IsAliasEdge(g, Head(rels))
          THEN <<<<Head(rels).source_entity_id, Head(rels).target_entity_id>>>>
          ELSE <<>>) \o AliasEdges(g, Tail(rels))

\* A pass that collects the alias edges and merges none of them.
MergeAliasEdgesLater(w, edges) == w

RECURSIVE MergeAliasEdges(_, _)
MergeAliasEdges(w, edges) ==
    IF edges = <<>> THEN w
    ELSE LET left_id == Head(edges)[1]
             right_id == Head(edges)[2]
             canonical_id == _select_canonical_id(w, <<left_id, right_id>>, <<>>)
             duplicate_id == IF canonical_id = left_id THEN right_id ELSE left_id
         IN  IF left_id \notin DOMAIN w.entities \/ right_id \notin DOMAIN w.entities
             THEN MergeAliasEdges(w, Tail(edges))
             ELSE MergeAliasEdges(MergeWorld(w, canonical_id, duplicate_id),
                                  Tail(edges))

_merge_explicit_alias_relationships(w) ==
    MergeAliasEdges(w, AliasEdges(w, w.relationships))

-----------------------------------------------------------------------------
(* LLMEntityResolver._apply_merge_groups *)

NonStr == -1            \* an id that is not a string (a number, null)
BadConf == -1           \* a confidence float() rejects (null, a word)

\* One entry of merge_groups that is a mapping.
Group(c, ds, isList, conf) ==
    [dict |-> TRUE, canonical_entity_id |-> c, duplicate_entity_ids |-> ds,
     dupsIsList |-> isList, confidence |-> conf]

\* An entry of merge_groups that is no mapping.
NonDictEntry ==
    [dict |-> FALSE, canonical_entity_id |-> NonStr, duplicate_entity_ids |-> <<>>,
     dupsIsList |-> FALSE, confidence |-> 0]

IsStr(x) == x # NonStr

\* The union-find: parent (a dict, with its insertion order) and the votes.
EmptyUF == [parent |-> <<>>, order |-> <<>>, votes |-> <<>>]

SetDefault(uf, node) ==
    IF node \in DOMAIN uf.parent THEN uf
    ELSE [uf EXCEPT !.parent = (node :> node) @@ uf.parent,
                    !.order = Append(uf.order, node)]

RECURSIVE FindRoot(_, _)
FindRoot(parent, node) ==
    IF parent[node] = node THEN node ELSE FindRoot(parent, parent[node])

\* find() with its path compression: every node on the way points to the root.
RECURSIVE Compress(_, _, _)
Compress(parent, node, root) ==
    IF parent[node] = node THEN parent
    ELSE Compress([parent EXCEPT ![node] = root], parent[node], root)

union(uf, left, right) ==
    LET p1 == Compress(uf.parent, left, FindRoot(uf.parent, left))
        left_root == FindRoot(p1, left)
        p2 == Compress(p1, right, FindRoot(p1, right))
        right_root == FindRoot(p2, right)
    IN  [uf EXCEPT !.parent =
            IF left_root # right_root
            THEN [p2 EXCEPT ![right_root] = left_root] ELSE p2]

\* A test that asks only whether the id is an entity of the graph.
IsLiveAny(g, id) == id \in DOMAIN g.entities

IsLivePerson(g, id) ==
    id \in DOMAIN g.entities /\ _is_person_like_entity(g.entities[id])

\* A loop that gives up the rest of the list at the first duplicate it
\* cannot use.
RECURSIVE UnionDuplicatesUntilSkip(_, _, _, _)
UnionDuplicatesUntilSkip(g, uf, canonical_id, duplicate_ids) ==
    IF duplicate_ids = <<>> THEN uf
    ELSE LET duplicate_id == Head(duplicate_ids) IN
         IF \/ ~IsStr(duplicate_id)
            \/ ~IsLivePerson(g, duplicate_id)
            \/ _is_non_mergeable_pair(g.relationships, canonical_id, duplicate_id)
         THEN uf
         ELSE UnionDuplicatesUntilSkip(g,
                union(SetDefault(SetDefault(uf, canonical_id), duplicate_id),
                      canonical_id, duplicate_id),
                canonical_id, Tail(duplicate_ids))

RECURSIVE UnionDuplicates(_, _, _, _)
UnionDuplicates(g, uf, canonical_id, duplicate_ids) ==
    IF duplicate_ids = <<>> THEN uf
    ELSE LET duplicate_id == Head(duplicate_ids) IN
         IF \/ ~IsStr(duplicate_id)
            \/ ~IsLivePerson(g, duplicate_id)
            \/ _is_non_mergeable_pair(g.relationships, canonical_id, duplicate_id)
         THEN UnionDuplicates(g, uf, canonical_id, Tail(duplicate_ids))
         ELSE UnionDuplicates(g,
                union(SetDefault(SetDefault(uf, canonical_id), duplicate_id),
                      canonical_id, duplicate_id),
                canonical_id, Tail(duplicate_ids))

AddVote(uf, id) ==
    [uf EXCEPT !.votes =
        IF id \in DOMAIN uf.votes THEN [uf.votes EXCEPT ![id] = @ + 1]
        ELSE (id :> 1) @@ uf.votes]

\* A gate that lets every confidence through.
GroupAcceptedNoGate(g, group) ==
    /\ IsStr(group.canonical_entity_id)
    /\ group.dupsIsList
    /\ IsLivePerson(g, group.canonical_entity_id)

GroupAccepted(g, group) ==
    /\ group.confidence >= min_confidence
    /\ IsStr(group.canonical_entity_id)
    /\ group.dupsIsList
    /\ IsLivePerson(g, group.canonical_entity_id)

\* The first loop: the groups that pass the gate vote and are unioned.
RECURSIVE CollectGroups(_, _, _)
CollectGroups(g, uf, groups) ==
    IF groups = <<>> THEN uf
    ELSE IF GroupAccepted(g, Head(groups))
    THEN CollectGroups(g,
            UnionDuplicates(g, AddVote(uf, Head(groups).canonical_entity_id),
                            Head(groups).canonical_entity_id,
                            Head(groups).duplicate_entity_ids),
            Tail(groups))
    ELSE CollectGroups(g, uf, Tail(groups))

\* float(group.get("confidence", 0.0)) raises for the first group it rejects.
ConfidenceRaises(groups) ==
    \E i \in DOMAIN groups : groups[i].confidence = BadConf

\* clusters: root -> members, both in the insertion order of parent.
RECURSIVE RootsInOrder(_, _)
RootsInOrder(parent, order) ==
    IF order = <<>> THEN <<>>
    ELSE AppendNew(<<FindRoot(parent, Head(order))>>,
                   RootsInOrder(parent, Tail(order)))

Clusters(uf) ==
    [i \in DOMAIN RootsInOrder(uf.parent, uf.order) |->
        SelectSeq(uf.order,
            LAMBDA n : FindRoot(uf.parent, n) = RootsInOrder(uf.parent, uf.order)[i])]

\* A loop that hands merge_entities its two ids the wrong way round.
RECURSIVE MergeMembersSwapped(_, _, _)
MergeMembersSwapped(w, canonical_id, members) ==
    IF members = <<>> THEN w
    ELSE IF Head(members) = canonical_id \/ Head(members) \notin DOMAIN w.entities
    THEN MergeMembersSwapped(w, canonical_id, Tail(members))
    ELSE MergeMembersSwapped(MergeWorld(w, Head(members), canonical_id),
                             canonical_id, Tail(members))

\* A loop that records each merge as an ALIAS_OF relationship from the
\* merged member to the canonical.
RECURSIVE MergeMembersRecording(_, _, _)
MergeMembersRecording(w, canonical_id, members) ==
    IF members = <<>> THEN w
    ELSE IF Head(members) = canonical_id \/ Head(members) \notin DOMAIN w.entities
    THEN MergeMembersRecording(w, canonical_id, Tail(members))
    ELSE LET merged == MergeWorld(w, canonical_id, Head(members)) IN
         MergeMembersRecording(
            [merged EXCEPT !.relationships =
                Append(@, Relationship(Head(members), canonical_id, "ALIAS_OF"))],
            canonical_id, Tail(members))

RECURSIVE MergeMembers(_, _, _)
MergeMembers(w, canonical_id, members) ==
    IF members = <<>> THEN w
    ELSE IF Head(members) = canonical_id \/ Head(members) \notin DOMAIN w.entities
    THEN MergeMembers(w, canonical_id, Tail(members))
    ELSE MergeMembers(MergeWorld(w, canonical_id, Head(members)), canonical_id,
                      Tail(members))

RECURSIVE MergeClusters(_, _, _)
MergeClusters(w, clusters, votes) ==
    IF clusters = <<>> THEN w
    ELSE LET cluster_entity_ids == Head(clusters)
             canonical_id == _select_canonical_id(w, cluster_entity_ids, votes)
         IN  IF Len(cluster_entity_ids) < 2 \/ canonical_id = NoId
             THEN MergeClusters(w, Tail(clusters), votes)
             ELSE MergeClusters(MergeMembers(w, canonical_id, cluster_entity_ids),
                                Tail(clusters), votes)

\* Defined when no confidence raises.
_apply_merge_groups(w, merge_groups) ==
    LET uf == CollectGroups(w, EmptyUF, merge_groups)
    IN  MergeClusters(w, Clusters(uf), uf.votes)

-----------------------------------------------------------------------------
(* LLMEntityResolver._resolve_batch: what chat_json does and what is made  *)
(* of it                                                                   *)

\* kind: "raise" (chat_json raised), "nondict" (the value returned is no
\* mapping), "nolist" (merge_groups is missing or no list), "list".
Response(kind, groups) == [kind |-> kind, groups |-> groups]

\* A _resolve_batch without its try/except.
ResponseRaisesNoCatch(resp) == resp.kind \in {"nondict", "raise"}

\* For a value without .get the call response.get raises, outside the try.
ResponseRaises(resp) == resp.kind = "nondict"

\* A _resolve_batch that gives up the list for one entry that is no mapping.
_resolve_batch_all_or_nothing(resp) ==
    IF resp.kind = "list" /\ \A i \in DOMAIN resp.groups : resp.groups[i].dict
    THEN resp.groups
    ELSE <<>>

\* The merge groups _resolve_batch returns.
_resolve_batch(resp) ==
    IF resp.kind = "list"
    THEN SelectSeq(resp.groups, LAMBDA group : group.dict)
    ELSE <<>>

-----------------------------------------------------------------------------
(* LLMEntityResolver.resolve, one action per stretch between LLM calls *)

\* History: the answer has one of the malformed shapes.
Malformed(resp) ==
    \/ resp.kind = "nolist"
    \/ /\ resp.kind = "list"
       /\ \E i \in DOMAIN resp.groups :
            \/ ~resp.groups[i].dict
            \/ ~IsStr(resp.groups[i].canonical_entity_id)
            \/ \E d \in Range(resp.groups[i].duplicate_entity_ids) : ~IsStr(d)

\* History: the groups under min_confidence that name two live person-like
\* entities.
LowGroups(g, resp) ==
    {i \in DOMAIN resp.groups :
        /\ resp.groups[i].dict
        /\ resp.groups[i].confidence < min_confidence
        /\ IsLivePerson(g, resp.groups[i].canonical_entity_id)
        /\ \E d \in Range(resp.groups[i].duplicate_entity_ids) :
              d # resp.groups[i].canonical_entity_id /\ IsLivePerson(g, d)}

\* History: the places (group, position) at which a group that passes the
\* gate names as duplicate an id that is no entity of the graph.
AbsentDuplicates(g, resp) ==
    LET groups == _resolve_batch(resp) IN
    UNION {{<<k, j>> : j \in {i \in DOMAIN groups[k].duplicate_entity_ids :
                        /\ IsStr(groups[k].duplicate_entity_ids[i])
                        /\ groups[k].duplicate_entity_ids[i]
                                \notin DOMAIN g.entities}} :
            k \in {i \in DOMAIN groups : GroupAccepted(g, groups[i])}}

PersonLikeList(ents) ==
    SelectSeq(SortedIds(DOMAIN ents), LAMBDA id : _is_person_like_entity(ents[id]))

BlockedPairs(ents, rels) ==
    {pair \in (DOMAIN ents) \X (DOMAIN ents) :
        pair[1] # pair[2] /\ _is_non_mergeable_pair(rels, pair[1], pair[2])}

-----------------------------------------------------------------------------
(* The signal miner and the request of a batch *)

NoBucket == ""          \* _role_bucket: None
neighbor_signal_limit == 12

\* config.role_buckets, in the configured order: name and terms.
role_buckets ==
    <<[name |-> "spouse", terms |-> {"wife"}],
      [name |-> "servant_worker", terms |-> {"driver"}]>>

\* The first configured bucket one of whose terms is in the text.
_role_bucket(e) ==
    LET hits == {k \in DOMAIN role_buckets :
                    role_buckets[k].terms \cap TextWords(e) # {}}
    IN  IF hits = {} THEN NoBucket
        ELSE role_buckets[CHOOSE k \in hits : \A j \in hits : k <= j].name

\* The end of relationship r that is not entity_id.
OtherEnd(r, entity_id) ==
    IF r.source_entity_id = entity_id THEN r.target_entity_id
    ELSE r.source_entity_id

\* The neighbors entry of a payload element: one signal per relationship of
\* the entity whose other end is an entity; relation_desc "" is a signal
\* without that key.
_get_neighbor_signals(g, entity_id) ==
    LET kept == SelectSeq(RelsFor(g.relationships, entity_id),
                    LAMBDA r : get_entity(g.entities, OtherEnd(r, entity_id)) # NoId)
        signals == [i \in DOMAIN kept |->
                      [relation_type |-> kept[i].relationship_type,
                       other_name |-> g.entities[OtherEnd(kept[i], entity_id)].name,
                       other_type |-> g.entities[OtherEnd(kept[i], entity_id)].entity_type,
                       relation_desc |-> kept[i].description]]
    IN  SubSeq(signals, 1, IF Len(signals) < neighbor_signal_limit
                           THEN Len(signals) ELSE neighbor_signal_limit)

\* The types of the relationships of id whose source or target is
\* neighbor_id, in the order of the graph.
RelationsWith(rels, id, neighbor_id) ==
    LET hit == SelectSeq(RelsFor(rels, id),
                    LAMBDA r : \/ r.source_entity_id = neighbor_id
                               \/ r.target_entity_id = neighbor_id)
    IN  [i \in DOMAIN hit |-> hit[i].relationship_type]

\* shared_ids taken to be the neighbors of left alone.
SharedIdsOfLeft(rels, left_id, right_id) ==
    get_neighbors(rels, left_id, 1) \ {right_id}

SharedIds(rels, left_id, right_id) ==
    (get_neighbors(rels, left_id, 1) \ {right_id})
        \cap (get_neighbors(rels, right_id, 1) \ {left_id})

\* The shared_neighbors list.  It is built in the iteration order of a set
\* of ids, which is left open; the model keys each element by the neighbor
\* it is about.  The empty function is a signal without the key.
SharedNeighbors(g, left_id, right_id) ==
    [n \in {m \in SharedIds(g.relationships, left_id, right_id) :
                get_entity(g.entities, m) # NoId} |->
        [neighbor_name |-> g.entities[n].name,
         left_relations |-> RelationsWith(g.relationships, left_id, n),
         right_relations |-> RelationsWith(g.relationships, right_id, n)]]

\* The same_role_bucket value; NoBucket is a signal without the key.
SameRoleBucket(left, right) ==
    IF _role_bucket(left) # NoBucket /\ _role_bucket(left) = _role_bucket(right)
    THEN _role_bucket(left) ELSE NoBucket

\* _build_pair_signal on the objects left and right of the list: the signal
\* as a sequence of one element, the empty sequence for None.  An empty
\* shared_neighbors, direct_relations or co_occurring_chunks is a signal
\* without that key.
_build_pair_signal(g, objs, left_id, right_id) ==
    LET signal ==
            [left_name |-> objs[left_id].name,
             left_id |-> left_id,
             right_name |-> objs[right_id].name,
             right_id |-> right_id,
             shared_neighbors |-> SharedNeighbors(g, left_id, right_id),
             direct_relations |->
                _get_direct_relation_types(g.relationships, left_id, right_id),
             same_role_bucket |-> SameRoleBucket(objs[left_id], objs[right_id]),
             co_occurring_chunks |->
                objs[left_id].source_chunks \cap objs[right_id].source_chunks]
        has_signal ==
            \/ DOMAIN signal.shared_neighbors # {}
            \/ signal.direct_relations # {}
            \/ signal.same_role_bucket # NoBucket
            \/ signal.co_occurring_chunks # {}
    IN  IF has_signal THEN <<signal>> ELSE <<>>

\* The inner loop: left against every entity after it.
RECURSIVE SignalsOfLeft(_, _, _, _)
SignalsOfLeft(g, objs, left_id, rights) ==
    IF rights = <<>> THEN <<>>
    ELSE _build_pair_signal(g, objs, left_id, Head(rights))
            \o SignalsOfLeft(g, objs, left_id, Tail(rights))

RECURSIVE _collect_merge_signals(_, _, _)
_collect_merge_signals(g, objs, ids) ==
    IF ids = <<>> THEN <<>>
    ELSE SignalsOfLeft(g, objs, Head(ids), Tail(ids))
            \o _collect_merge_signals(g, objs, Tail(ids))

\* The payload of a batch; aliases <<>> is an entry without that key.
Payload(g, objs, ids) ==
    [i \in DOMAIN ids |->
        [entity_id |-> ids[i],
         name |-> objs[ids[i]].name,
         entity_type |-> objs[ids[i]].entity_type,
         description |-> objs[ids[i]].description,
         source_chunks |-> objs[ids[i]].source_chunks,
         neighbors |-> _get_neighbor_signals(g, ids[i]),
         aliases |-> objs[ids[i]].aliases]]

\* A prompt that always carries the evidence section.
UserPromptAlwaysEvidence(g, objs, ids) ==
    <<[part |-> "payload", body |-> Payload(g, objs, ids)],
      [part |-> "evidence", body |-> _collect_merge_signals(g, objs, ids)]>>

\* user_prompt of _resolve_batch, as the sequence of its parts: the payload
\* and, when there are candidate signals, the evidence section.
user_prompt(g, objs, ids) ==
    LET candidate_signals == _collect_merge_signals(g, objs, ids) IN
    <<[part |-> "payload", body |-> Payload(g, objs, ids)]>>
    \o (IF candidate_signals # <<>>
        THEN <<[part |-> "evidence", body |-> candidate_signals]>>
        ELSE <<>>)

\* person_like_entities[start:start + self.max_entities_per_pass]
Batch(list, st) ==
    SubSeq(list, st + 1,
           IF st + max_entities_per_pass < Len(list)
           THEN st + max_entities_per_pass ELSE Len(list))

\* resolve() up to the first LLM call: the explicit alias pass and the list
\* of person-like entities.
ResolveStart ==
    /\ pc = "idle"
    /\ LET w == _merge_explicit_alias_relationships(
                    World(entities, relationships, rep))
           person_like_entities == PersonLikeList(w.entities)
       IN
        /\ entities' = w.entities
        /\ relationships' = w.relationships
        /\ rep' = w.rep
        /\ index' \in (IF w.entities = entities THEN {index}
                       ELSE RebuildIndex(w.entities))
        /\ plist' = person_like_entities
        /\ objects' = [id \in Range(plist') |-> entities'[id]]
        /\ pc' = IF Len(person_like_entities) < 2 THEN "done" ELSE "batch"
        /\ last' = [op |-> "alias_pass", arg |-> NoArg, res |-> {}, loops |-> 0, dropped |-> 0, a |-> NoId, b |-> NoId, ret |-> 0,
                    tag |-> "",
                    n |-> Cardinality(DOMAIN entities)
                            - Cardinality(DOMAIN w.entities)]
    /\ start' = 0
    /\ response' = NoResponse
    /\ startIds' = DOMAIN entities
    /\ blockedAtStart' = BlockedPairs(entities, relationships)
    /\ request' = NoRequest
    /\ UNCHANGED nextId

\* A _resolve_batch that, while building the payload, removes from the graph
\* the relationships with an end that is no entity.
CallLLMPruning(resp) ==
    /\ pc = "batch"
    /\ response' = resp
    /\ pc' = "apply"
    /\ last' = [op |-> "chat_json", arg |-> NoArg, res |-> {}, loops |-> 0, dropped |-> 0, a |-> NoId, b |-> NoId, ret |-> 0,
                tag |-> resp.kind, n |-> 0]
    /\ request' = user_prompt(World(entities, relationships, rep), objects,
                               Batch(plist, start))
    /\ relationships' = SelectSeq(relationships,
            LAMBDA r : /\ r.source_entity_id \in DOMAIN entities
                       /\ r.target_entity_id \in DOMAIN entities)
    /\ UNCHANGED <<plist, start, startIds, blockedAtStart, objects>>
    /\ UNCHANGED <<entities, index, nextId, rep>>

\* _resolve_batch up to the return of chat_json: the payload, the candidate
\* signals, the prompt and the call.
CallLLM(resp) ==
    /\ pc = "batch"
    /\ response' = resp
    /\ pc' = "apply"
    /\ last' = [op |-> "chat_json", arg |-> NoArg, res |-> {}, loops |-> 0, dropped |-> 0, a |-> NoId, b |-> NoId, ret |-> 0,
                tag |-> resp.kind, n |-> 0]
    /\ request' = user_prompt(World(entities, relationships, rep), objects,
                               Batch(plist, start))
    /\ UNCHANGED <<plist, start, startIds, blockedAtStart, objects>>
    /\ UNCHANGED graphVars

\* The rest of _resolve_batch, _apply_merge_groups and the loop step.
ApplyBatch ==
    /\ pc = "apply"
    /\ IF ResponseRaises(response) \/ ConfidenceRaises(_resolve_batch(response))
       THEN /\ pc' = "raised"
            /\ UNCHANGED <<entities, relationships, index, rep, start, objects>>
            /\ last' = [op |-> "resolve_batch", arg |-> NoArg, res |-> {}, loops |-> 0, dropped |-> 0, a |-> NoId, b |-> NoId,
                        ret |-> 0, tag |-> "raised", n |-> 0]
       ELSE LET w == _apply_merge_groups(World(entities, relationships, rep),
                                         _resolve_batch(response))
            IN  /\ entities' = w.entities
                /\ relationships' = w.relationships
                /\ rep' = w.rep
                /\ index' \in (IF w.entities = entities THEN {index}
                               ELSE RebuildIndex(w.entities))
                /\ objects' = [id \in DOMAIN objects |->
                                IF id \in DOMAIN entities' THEN entities'[id]
                                ELSE objects[id]]
                /\ start' = start + max_entities_per_pass
                /\ pc' = IF start + max_entities_per_pass < Len(plist)
                         THEN "batch" ELSE "done"
                /\ last' = [op |-> "resolve_batch", arg |-> NoArg, res |-> {}, loops |-> 0,
                            dropped |-> Cardinality(AbsentDuplicates(
                                        World(entities, relationships, rep),
                                        response)),
                            a |-> IF Malformed(response) THEN 1 ELSE 0,
                            b |-> NoId,
                            ret |-> Cardinality(LowGroups(
                                        World(entities, relationships, rep),
                                        response)),
                            tag |-> response.kind,
                            n |-> Cardinality(DOMAIN entities)
                                    - Cardinality(DOMAIN w.entities)]
    /\ response' = NoResponse
    /\ request' = NoRequest
    /\ UNCHANGED <<nextId, plist, startIds, blockedAtStart>>

\* resolve() has returned, or raised to its caller.
ResolveReturn ==
    /\ pc \in {"done", "raised"}
    /\ pc' = "idle"
    /\ plist' = <<>>
    /\ start' = 0
    /\ startIds' = {}
    /\ blockedAtStart' = {}
    /\ objects' = <<>>
    /\ request' = NoRequest
    /\ last' = [op |-> "resolve", arg |-> NoArg, res |-> {}, loops |-> 0, dropped |-> 0, a |-> NoId, b |-> NoId, ret |-> 0,
                tag |-> pc, n |-> 0]
    /\ UNCHANGED response
    /\ UNCHANGED graphVars

-----------------------------------------------------------------------------
(* The graph built by ingestion, then resolved *)

MaxLlmId == 3           \* the ids an LLM answer names are 1..MaxLlmId
ResolveMaxRels == 1     \* relationships added before resolve()

LlmIds == 1..MaxLlmId

Plain(n, t) == Entity(n, t, <<>>, <<>>, {})

\* The mentions ingestion adds when the next new entity gets id k.
ResolveMentions(k) ==
    IF k = 1 THEN {Plain("Kim", "PERSON")}
    ELSE IF k = 2 THEN {Plain("wife", "OTHER")}
    ELSE {Plain("calf", "PERSON"), Plain("inn", "OTHER"),
          Entity("inn", "OTHER", <<>>, <<"Kim">>, {}),
          Entity("Kim", "PERSON", <<>>, <<"calf">>, {})}

ResolveRelInputs ==
    {Relationship(p[1], p[2], ty) :
        p \in {q \in LlmIds \X LlmIds : q[1] < q[2]}, ty \in RelTypes}

Accept == min_confidence
Reject == min_confidence - 1

DistinctPairs == {p \in LlmIds \X LlmIds : p[1] # p[2]}
DistinctTriples ==
    {p \in LlmIds \X LlmIds \X LlmIds : p[1] # p[2] /\ p[1] # p[3] /\ p[2] # p[3]}

PairGroups(conf) == {Group(p[1], <<p[2]>>, TRUE, conf) : p \in DistinctPairs}

SingleGroups ==
    PairGroups(Accept) \cup PairGroups(Reject)
    \cup {Group(p[1], <<p[2], p[3]>>, TRUE, Accept) : p \in DistinctTriples}
    \cup {Group(p[1], <<NonStr, p[2]>>, TRUE, Accept) : p \in DistinctPairs}
    \cup {NonDictEntry,
          Group(1, <<2>>, TRUE, BadConf),
          Group(NonStr, <<1>>, TRUE, Accept),
          Group(1, <<>>, FALSE, Accept)}

\* What chat_json may do for one batch.
Responses ==
    {Response("raise", <<>>), Response("nondict", <<>>), Response("nolist", <<>>)}
    \cup {Response("list", <<g>>) : g \in SingleGroups}
    \cup {Response("list", <<g1, g2>>) :
            g1 \in PairGroups(Accept) \cup PairGroups(Reject) \cup {NonDictEntry},
            g2 \in PairGroups(Accept)}

Next ==
    \/ \E e \in ResolveMentions(nextId) : AddEntity(e, MaxEntities) /\ UNCHANGED hist
    \/ \E r \in ResolveRelInputs : AddRelationship(r, ResolveMaxRels) /\ UNCHANGED hist
    \/ ResolveStart /\ UNCHANGED hist
    \/ \E resp \in Responses : CallLLM(resp) /\ UNCHANGED hist
    \/ ApplyBatch /\ UNCHANGED hist
    \/ ResolveReturn /\ UNCHANGED hist

Spec == Init /\ [][Next]_vars

-----------------------------------------------------------------------------
(* resolve() on entities that differ in type, role name and degree *)

SelectMaxRels == 2      \* relationships added before resolve()

\* Person-like entities: a PERSON, a role name of either type, and an entity
\* that is a PERSON or is person-like by a word of its description.
SelectMentions(k) ==
    IF k = 1 THEN {Plain("Kim", "PERSON")}
    ELSE IF k = 2 THEN {Plain("wife", "OTHER"), Plain("wife", "PERSON")}
    ELSE {Plain("calf", "PERSON"),
          Entity("calf", "OTHER", <<"driver">>, <<>>, {})}

SelectRelInputs ==
    {Relationship(1, 2, "HELPS"), Relationship(2, 3, "HELPS"),
     Relationship(3, 1, "HELPS")}

\* chat_json proposes one pair, one canonical with two duplicates, or two
\* pairs, all with a confidence that passes.
SelectResponses ==
    {Response("list", <<g>>) : g \in PairGroups(Accept)}
    \cup {Response("list", <<Group(p[1], <<p[2], p[3]>>, TRUE, Accept)>>) :
            p \in DistinctTriples}
    \cup {Response("list", <<g1, g2>>) :
            g1 \in PairGroups(Accept), g2 \in PairGroups(Accept)}

NextSelect ==
    \/ \E e \in SelectMentions(nextId) : AddEntity(e, MaxLlmId) /\ UNCHANGED hist
    \/ \E r \in SelectRelInputs : AddRelationship(r, SelectMaxRels) /\ UNCHANGED hist
    \/ ResolveStart /\ UNCHANGED hist
    \/ \E resp \in SelectResponses : CallLLM(resp) /\ UNCHANGED hist
    \/ ApplyBatch /\ UNCHANGED hist
    \/ ResolveReturn /\ UNCHANGED hist

SpecSelect == Init /\ [][NextSelect]_vars

-----------------------------------------------------------------------------
(* resolve() called again on the graph it has just resolved *)

PassMaxRels == 2        \* relationships added before the first resolve()

\* Mentions without aliases: no two entities ever share an index key.
PassMentions(k) ==
    {Plain(<<"Kim", "wife", "calf", "inn">>[((k - 1) % 4) + 1],
           <<"PERSON", "OTHER", "PERSON", "OTHER">>[((k - 1) % 4) + 1])}

PassRelInputs ==
    {Relationship(1, 2, "same_as"), Relationship(2, 3, "same_as"),
     Relationship(3, 1, "same_as"), Relationship(1, 3, "MARRIED_TO")}

\* chat_json fails, answers with a value that is no mapping or one without
\* merge_groups, or proposes one pair.
PassResponses ==
    {Response("raise", <<>>), Response("nondict", <<>>),
     Response("nolist", <<>>)}
    \cup {Response("list", <<g>>) : g \in PairGroups(Accept)}

\* The pairs (canonical, duplicate) the confident, well-formed groups of an
\* answer propose, tagged with the batch (its start) that answered.
ProposedBy(resp, st) ==
    LET groups == _resolve_batch(resp)
        confident == {k \in DOMAIN groups :
                        /\ groups[k].dupsIsList
                        /\ IsStr(groups[k].canonical_entity_id)
                        /\ groups[k].confidence >= min_confidence}
    IN  UNION {{<<groups[k].canonical_entity_id, d, st>> :
                    d \in {x \in Range(groups[k].duplicate_entity_ids) :
                            IsStr(x)}} : k \in confident}

PairsOf(proposed) == {<<t[1], t[2]>> : t \in proposed}

PassAdd(e) ==
    /\ AddEntity(e, MaxLlmId)
    /\ hist' = NoHist

PassRel(r) ==
    /\ AddRelationship(r, PassMaxRels)
    /\ hist' = NoHist

PassStart ==
    /\ ResolveStart
    /\ hist' = [run |-> IF hist.run = 0 THEN 1 ELSE 2,
                proposed |-> {},
                prev |-> PairsOf(hist.proposed),
                names |-> [id \in DOMAIN entities |-> entities[id].name],
                ents |-> hist.ents,
                rels |-> hist.rels,
                calls |-> 0,
                batches |-> {}]

PassCall(resp) ==
    /\ CallLLM(resp)
    /\ hist' = [hist EXCEPT !.calls = @ + 1,
                            !.batches = @ \cup {<<start, Batch(plist, start)>>}]

PassApply ==
    /\ ApplyBatch
    /\ hist' = [hist EXCEPT !.proposed = @ \cup ProposedBy(response, start)]

PassReturn ==
    /\ ResolveReturn
    /\ hist' = [hist EXCEPT !.ents = Cardinality(DOMAIN entities),
                            !.rels = Len(relationships)]

NextPasses ==
    \/ \E e \in PassMentions(nextId) : PassAdd(e)
    \/ \E r \in PassRelInputs : PassRel(r)
    \/ PassStart
    \/ \E resp \in PassResponses : PassCall(resp)
    \/ PassApply
    \/ PassReturn

SpecPasses == Init /\ [][NextPasses]_vars

-----------------------------------------------------------------------------
(* The signal miner on entities with roles, chunks and shared neighbors *)

SignalMaxRels == 2      \* relationships added before the miner runs
MaxListLen == 3         \* entities handed to _collect_merge_signals at once

\* Mentions with role words in name or description and with source chunks.
SignalMentions(k) ==
    IF k = 1 THEN {Entity("Kim", "PERSON", <<>>, <<>>, {1})}
    ELSE IF k = 2 THEN {Entity("wife", "OTHER", <<>>, <<>>, {1}),
                        Entity("wife", "OTHER", <<"driver">>, <<>>, {2})}
    ELSE IF k = 3 THEN {Entity("calf", "OTHER", <<"driver">>, <<>>, {}),
                        Entity("calf", "PERSON", <<"wife">>, <<>>, {})}
    ELSE {Entity("inn", "PERSON", <<>>, <<>>, {2})}

SignalRelInputs ==
    {Relationship(1, 3, "HELPS"), Relationship(3, 2, "HELPS"),
     Relationship(1, 4, "HELPS"), Relationship(2, 4, "MARRIED_TO"),
     Described(Relationship(2, 1, "same_as"), "said")}

\* The lists of distinct entities of the graph, of two or three elements.
EntityLists ==
    {l \in UNION {[1..n -> DOMAIN entities] : n \in 2..MaxListLen} :
        \A i \in DOMAIN l : \A j \in DOMAIN l : i # j => l[i] # l[j]}

\* resolver._collect_merge_signals(graph, [e1, e2, ...]) called on entities
\* of the graph.
CollectMergeSignals(ids) ==
    /\ pc = "idle"
    /\ last' = [op |-> "collect_merge_signals", arg |-> NoArg,
                res |-> [ids |-> ids,
                         signals |-> _collect_merge_signals(
                                        World(entities, relationships, rep),
                                        entities, ids)],
                loops |-> 0, dropped |-> 0, a |-> NoId, b |-> NoId, ret |-> 0,
                tag |-> "", n |-> 0]
    /\ UNCHANGED graphVars
    /\ UNCHANGED resolveVars

SignalResponses ==
    {Response("nolist", <<>>)}
    \cup {Response("list", <<g>>) : g \in PairGroups(Accept)}

NextSignals ==
    \/ \E e \in SignalMentions(nextId) : AddEntity(e, MaxEntities) /\ UNCHANGED hist
    \/ \E r \in SignalRelInputs : AddRelationship(r, SignalMaxRels) /\ UNCHANGED hist
    \/ \E ids \in EntityLists : CollectMergeSignals(ids) /\ UNCHANGED hist
    \/ ResolveStart /\ UNCHANGED hist
    \/ \E resp \in SignalResponses : CallLLM(resp) /\ UNCHANGED hist
    \/ ApplyBatch /\ UNCHANGED hist
    \/ ResolveReturn /\ UNCHANGED hist

SpecSignals == Init /\ [][NextSignals]_vars

-----------------------------------------------------------------------------
(* Properties of the graph operations *)

Lookup(name) == get_entity_by_name(entities, index, name)

\* C1: index consistency.  For every entity e of the graph, looking up
\* e.name or any alias of e, in any letter case, returns e; and no lookup
\* returns an id that is not in the entity map.
C1_IndexConsistent ==
    /\ \A id \in DOMAIN entities : \A s \in NameStrings :
          Lower(s) \in EntityKeys(entities[id]) => Lookup(s) = id
    /\ \A k \in KeySet : index[k] \in DOMAIN entities \cup {NoId}

References(r, id) == r.source_entity_id = id \/ r.target_entity_id = id

\* r2 is r with every d replaced by c, in the same position.
Remapped(r, r2, c, d) ==
    /\ r2.relationship_type = r.relationship_type
    /\ r2.source_entity_id = (IF r.source_entity_id = d THEN c ELSE r.source_entity_id)
    /\ r2.target_entity_id = (IF r.target_entity_id = d THEN c ELSE r.target_entity_id)

\* The step is a successful merge_entities(c, d).
MergedStep(c, d) ==
    /\ last'.op = "merge_entities" /\ last'.ret = 1
    /\ last'.a = c /\ last'.b = d

\* C2 as stated: after a successful merge_entities(c, d), d is gone, no
\* relationship references d, and every relationship that referenced d is
\* still there with c in d's place.
C2_AllRemapped ==
    [][\A c \in Ids, d \in Ids : MergedStep(c, d) =>
        /\ d \notin DOMAIN entities'
        /\ \A j \in DOMAIN relationships' : ~References(relationships'[j], d)
        /\ \A i \in DOMAIN relationships :
              References(relationships[i], d) =>
                \E j \in DOMAIN relationships' :
                    Remapped(relationships[i], relationships'[j], c, d)]_vars

\* The relationship joins c and d, or d and d: rewritten, a self-loop on c.
BecomesSelfLoop(r, c, d) ==
    /\ r.source_entity_id \in {c, d}
    /\ r.target_entity_id \in {c, d}

\* C2 amended: after a successful merge_entities(c, d), d is gone, no
\* relationship references d, every relationship that referenced d and did
\* not run between c and d is there with c in d's place, and every
\* relationship there is the rewrite of one that was there before.
C2_Remapped ==
    [][\A c \in Ids, d \in Ids : MergedStep(c, d) =>
        /\ d \notin DOMAIN entities'
        /\ \A j \in DOMAIN relationships' : ~References(relationships'[j], d)
        /\ \A i \in DOMAIN relationships :
              (References(relationships[i], d)
                  /\ ~BecomesSelfLoop(relationships[i], c, d)) =>
                \E j \in DOMAIN relationships' :
                    Remapped(relationships[i], relationships'[j], c, d)
        /\ \A j \in DOMAIN relationships' :
              \E i \in DOMAIN relationships :
                  Remapped(relationships[i], relationships'[j], c, d)]_vars

\* A merge has just moved a relationship of the duplicate to the canonical.
C2_Witness ==
    /\ last.op = "merge_entities" /\ last.ret = 1 /\ last.n > 0
    /\ last.b \notin DOMAIN entities
    /\ \E j \in DOMAIN relationships : References(relationships[j], last.a)

Between(r, x, y, t) ==
    /\ r.relationship_type = t
    /\ \/ r.source_entity_id = x /\ r.target_entity_id = y
       \/ r.source_entity_id = y /\ r.target_entity_id = x

EdgePreserved(c, d, x) ==
    \A t \in RelTypes :
        (\E i \in DOMAIN relationships : Between(relationships[i], d, x, t))
            => \E j \in DOMAIN relationships' : Between(relationships'[j], c, x, t)

\* C3 as stated: for every entity x and type t, an edge of type t between
\* d and x before merge_entities(c, d) leaves an edge of type t between c
\* and x.
C3_EdgesPreservedAll ==
    [][\A c \in Ids, d \in Ids : MergedStep(c, d) =>
        \A x \in DOMAIN entities : EdgePreserved(c, d, x)]_vars

\* C3 amended: the same for every x other than c and d themselves.
C3_EdgesPreserved ==
    [][\A c \in Ids, d \in Ids : MergedStep(c, d) =>
        \A x \in Ids \ {c, d} : EdgePreserved(c, d, x)]_vars

\* A merge whose duplicate had an edge to a third id, found at the canonical.
C3_Witness ==
    /\ last.op = "merge_entities" /\ last.ret = 1 /\ last.n > 0
    /\ \E j \in DOMAIN relationships, x \in Ids \ {last.a, last.b} :
          \E t \in RelTypes : Between(relationships[j], last.a, x, t)

\* e matches an entity of the graph: they share a name or alias, lowercased.
MatchesExisting(e) ==
    \E x \in DOMAIN entities : EntityKeys(e) \cap EntityKeys(entities[x]) # {}

Absorbed(old, new, e) ==
    /\ new.name = old.name
    /\ new.entity_type = old.entity_type
    /\ Contained(old.description, new.description)
    /\ Contained(e.description, new.description)
    /\ \A a \in Range(old.aliases) \cup Range(e.aliases) :
          a = new.name \/ a \in Range(new.aliases)
    /\ new.source_chunks = old.source_chunks \cup e.source_chunks

\* C10: add_entity(e).  If e's name or an alias matches an entity of the
\* graph, no node is created, the id returned is that of a matching entity
\* and this entity has absorbed e's description, aliases and source_chunks;
\* otherwise e is inserted under its own id, which is returned, and the
\* entity count grows by one.
C10_AddEntity ==
    [][last'.op = "add_entity" =>
        LET e == last'.arg
            ret == last'.ret
        IN  IF MatchesExisting(e)
            THEN /\ DOMAIN entities' = DOMAIN entities
                 /\ ret \in DOMAIN entities
                 /\ EntityKeys(e) \cap EntityKeys(entities[ret]) # {}
                 /\ Absorbed(entities[ret], entities'[ret], e)
                 /\ \A x \in DOMAIN entities \ {ret} : entities'[x] = entities[x]
            ELSE /\ ret = nextId
                 /\ ret \notin DOMAIN entities
                 /\ DOMAIN entities' = DOMAIN entities \cup {ret}
                 /\ Cardinality(DOMAIN entities') = Cardinality(DOMAIN entities) + 1
                 /\ entities'[ret] = e
                 /\ \A x \in DOMAIN entities : entities'[x] = entities[x]]_vars

\* An add_entity that was absorbed and brought an alias and a description.
C10_Witness ==
    /\ last.op = "add_entity" /\ last.tag = "absorbed"
    /\ Len(entities[last.ret].aliases) > 0
    /\ Len(entities[last.ret].description) > 1
    /\ Cardinality(entities[last.ret].source_chunks) > 1

-----------------------------------------------------------------------------
(* Properties of resolve() *)

\* C4: when resolve() returns, no two entities that were joined by a
\* relationship of a non-merge type when it was called have been merged
\* into one entity.
C4_NonMergePairsKept ==
    pc = "done" =>
        \A pair \in blockedAtStart : rep[pair[1]] # rep[pair[2]]

\* The answer of this batch is the chain (A, [B]), (B, [C]), both groups
\* accepted: confident, all three live and person-like, no non-merge
\* relationship between A and B or between B and C.
ChainAccepted(A, B, C) ==
    /\ response.kind = "list"
    /\ response.groups = <<Group(A, <<B>>, TRUE, Accept), Group(B, <<C>>, TRUE, Accept)>>
    /\ \A x \in {A, B, C} : IsLivePerson(World(entities, relationships, rep), x)
    /\ ~_is_non_mergeable_pair(relationships, A, B)
    /\ ~_is_non_mergeable_pair(relationships, B, C)

\* C5: when the last batch of a resolve() accepts (A, [B]) and (B, [C]),
\* exactly one of A, B, C is left and get_entity_by_name returns it for
\* each of the three names.
C5_TransitiveClustering ==
    [][\A t \in DistinctTriples :
        (pc = "apply" /\ pc' = "done" /\ ChainAccepted(t[1], t[2], t[3])) =>
            LET left == {t[1], t[2], t[3]} \cap DOMAIN entities'
            IN  /\ Cardinality(left) = 1
                /\ \A x \in {t[1], t[2], t[3]} :
                      get_entity_by_name(entities', index', entities[x].name) \in left]_vars

\* The pairs (canonical, duplicate) the groups name.
NamedPairs(groups) ==
    UNION {{<<groups[i].canonical_entity_id, d>> :
                d \in Range(groups[i].duplicate_entity_ids)} : i \in DOMAIN groups}

RECURSIVE Reach(_, _)
Reach(E, S) ==
    LET T == S \cup {y \in Ids : \E x \in S : <<x, y>> \in E \/ <<y, x>> \in E}
    IN  IF T = S THEN S ELSE Reach(E, T)

Confident(groups) ==
    SelectSeq(groups, LAMBDA group : group.dict /\ group.confidence >= min_confidence)

UnderConfident(groups) ==
    SelectSeq(groups, LAMBDA group : group.dict /\ group.confidence < min_confidence)

\* C6: a batch whose answer holds groups under min_confidence ends as if
\* these groups were not in the answer: with no other group nothing is
\* merged, and the two entities such a group names are one afterwards only
\* if groups at or over min_confidence link them.
C6_ConfidenceGate ==
    [][(pc = "apply" /\ pc' # "raised" /\ response.kind = "list") =>
        LET w == _apply_merge_groups(World(entities, relationships, rep),
                                     Confident(response.groups))
        IN  /\ entities' = w.entities
            /\ relationships' = w.relationships
            /\ Confident(response.groups) = <<>> =>
                  entities' = entities /\ relationships' = relationships
            /\ \A pair \in NamedPairs(UnderConfident(response.groups)) :
                  (/\ pair[1] \in DOMAIN entities
                   /\ pair[2] \in DOMAIN entities
                   /\ pair[1] # pair[2]
                   /\ rep'[pair[1]] = rep'[pair[2]])
                  => pair[2] \in Reach(NamedPairs(Confident(response.groups)),
                                       {pair[1]})]_vars

\* A batch answered with a group under min_confidence naming two live
\* person-like entities has been applied, and nothing was merged.
C6_Witness ==
    /\ last.op = "resolve_batch" /\ last.tag = "list"
    /\ last.ret > 0 /\ last.n = 0
    /\ pc \in {"batch", "done"}

\* C7: when chat_json raises for a batch, resolve() does not raise, the
\* batch changes neither entities nor relationships nor the index, and
\* resolve() goes on to the next batch, if there is one.
C7_FailureAbsorbed ==
    [][(pc = "apply" /\ response.kind = "raise") =>
        /\ pc' # "raised"
        /\ UNCHANGED <<entities, relationships, index, rep>>
        /\ start' = start + max_entities_per_pass
        /\ (start' < Len(plist) => pc' = "batch")
        /\ (start' >= Len(plist) => pc' = "done")]_vars

\* chat_json raised for a batch and resolve() is at the next batch.
C7_Witness ==
    /\ last.op = "resolve_batch" /\ last.tag = "raise"
    /\ pc = "batch" /\ start > 0 /\ start < Len(plist)

WellFormed(resp) ==
    IF resp.kind # "list" THEN <<>>
    ELSE LET kept == SelectSeq(resp.groups,
                        LAMBDA group : group.dict /\ IsStr(group.canonical_entity_id))
         IN  [i \in DOMAIN kept |->
                [kept[i] EXCEPT !.duplicate_entity_ids = SelectSeq(@, IsStr)]]

C9_ValidAndIndexed ==
    pc = "done" =>
        /\ \A i \in DOMAIN relationships :
              /\ relationships[i].source_entity_id \notin startIds \ DOMAIN entities
              /\ relationships[i].target_entity_id \notin startIds \ DOMAIN entities
        /\ \A id \in DOMAIN entities :
              /\ Lookup(entities[id].name) = id
              /\ \A a \in Range(entities[id].aliases) : Lookup(a) = id

-----------------------------------------------------------------------------
(* Further properties of merge_entities *)

\* C11: after a successful merge_entities(c, d) the duplicate's name is an
\* alias of the canonical (unless it is the canonical's name), and the
\* lookups of d's name and of c's name both return c.
C11_DuplicateNameKept ==
    [][\A c \in Ids, d \in Ids : MergedStep(c, d) =>
        /\ \/ entities[d].name = entities[c].name
           \/ entities[d].name \in Range(entities'[c].aliases)
        /\ get_entity_by_name(entities', index', entities[d].name) = c
        /\ get_entity_by_name(entities', index', entities[c].name) = c]_vars

\* C12: merge_entities(c, d) returns false and changes neither entities
\* nor relationships nor the index when c is absent, d is absent or c = d;
\* otherwise it returns true, and then d is absent, so that the same call
\* made again is one of the failing cases.
C12_FailedMergeNoOp ==
    [][\A c \in Ids, d \in Ids :
        (last'.op = "merge_entities" /\ last'.a = c /\ last'.b = d) =>
            IF c \notin DOMAIN entities \/ d \notin DOMAIN entities \/ c = d
            THEN /\ last'.ret = 0
                 /\ UNCHANGED <<entities, relationships, index>>
            ELSE /\ last'.ret = 1
                 /\ d \notin DOMAIN entities']_vars

\* merge_entities(c, d) has returned false for a d merged into c before.
C12_Witness ==
    /\ last.op = "merge_entities" /\ last.ret = 0
    /\ last.a \in DOMAIN entities
    /\ last.b \notin DOMAIN entities
    /\ last.a # last.b
    /\ rep[last.b] = last.a

\* Relationship i of the graph with d replaced by c.
Rewritten(i, c, d) ==
    [relationships[i] EXCEPT
        !.source_entity_id = IF @ = d THEN c ELSE @,
        !.target_entity_id = IF @ = d THEN c ELSE @]

SameTriple(r1, r2) ==
    /\ r1.source_entity_id = r2.source_entity_id
    /\ r1.target_entity_id = r2.target_entity_id
    /\ r1.relationship_type = r2.relationship_type

\* Relationship i is the first with its rewritten triple and no self-loop
\* on c.
KeptFirst(i, c, d) ==
    /\ ~(Rewritten(i, c, d).source_entity_id = c
            /\ Rewritten(i, c, d).target_entity_id = c)
    /\ \A k \in 1..(i - 1) : ~SameTriple(Rewritten(k, c, d), Rewritten(i, c, d))

\* C13: after a successful merge_entities no two relationships share
\* source, target and type, and of the relationships the rewrite made
\* identical the first in sequence order is the one kept.
C13_Deduplicated ==
    [][\A c \in Ids, d \in Ids : MergedStep(c, d) =>
        /\ \A i \in DOMAIN relationships', j \in DOMAIN relationships' :
              i # j => ~SameTriple(relationships'[i], relationships'[j])
        /\ Len(relationships')
              = Cardinality({i \in DOMAIN relationships : KeptFirst(i, c, d)})
        /\ \A i \in DOMAIN relationships : KeptFirst(i, c, d) =>
              relationships'[Cardinality({k \in 1..i : KeptFirst(k, c, d)})]
                  = Rewritten(i, c, d)]_vars

\* A merge has collapsed two relationships into one, and another is left.
C13_Witness ==
    /\ last.op = "merge_entities" /\ last.ret = 1
    /\ last.dropped - last.loops > 0
    /\ Len(relationships) > 0
    /\ last.n > 0

\* The relationship runs between c and d, in either direction.
RunsBetween(r, c, d) ==
    \/ r.source_entity_id = c /\ r.target_entity_id = d
    \/ r.source_entity_id = d /\ r.target_entity_id = c

\* C14: after a successful merge_entities(c, d) no relationship has source
\* and target both equal to c, and each relationship that ran between c
\* and d is gone: the list is shorter by at least their number.
C14_NoSelfLoop ==
    [][\A c \in Ids, d \in Ids : MergedStep(c, d) =>
        /\ \A j \in DOMAIN relationships' :
              ~(relationships'[j].source_entity_id = c
                    /\ relationships'[j].target_entity_id = c)
        /\ Len(relationships') + Cardinality({i \in DOMAIN relationships :
                    RunsBetween(relationships[i], c, d)}) <= Len(relationships)]_vars

\* A merge has dropped a relationship between c and d and kept another.
C14_Witness ==
    /\ last.op = "merge_entities" /\ last.ret = 1
    /\ last.loops > 0
    /\ Len(relationships) > 0

-----------------------------------------------------------------------------
(* Properties of to_dict / from_dict *)

\* C16: from_dict(to_dict(g)) has as many entities and as many
\* relationships as g, and every lookup of a name or alias returns the
\* entity it returns in g.
C16_RoundTrip ==
    [][last'.op = "from_dict" =>
        /\ Cardinality(DOMAIN entities') = Cardinality(DOMAIN entities)
        /\ Len(relationships') = Len(relationships)
        /\ \A s \in NameStrings :
              get_entity_by_name(entities', index', s)
                  = get_entity_by_name(entities, index, s)]_vars

-----------------------------------------------------------------------------
(* Properties of get_neighbors *)

\* The ends of the paths of exactly k relationships from id, each
\* relationship taken in either direction.
RECURSIVE PathEnds(_, _)
PathEnds(id, k) ==
    IF k = 0 THEN {id}
    ELSE {y \in Ids : \E x \in PathEnds(id, k - 1) : \E i \in DOMAIN relationships :
            \/ /\ relationships[i].source_entity_id = x
               /\ relationships[i].target_entity_id = y
            \/ /\ relationships[i].target_entity_id = x
               /\ relationships[i].source_entity_id = y}

\* C18: get_neighbors(id, hops) is the set of ids other than id that a
\* path of at least 1 and at most hops relationships, each in either
\* direction, leads to from id; it never contains id.
C18_Neighbors ==
    last.op = "get_neighbors" =>
        /\ last.res = UNION {PathEnds(last.a, k) : k \in 1..last.n} \ {last.a}
        /\ last.a \notin last.res

\* get_neighbors was asked for 2 hops on an id that a cycle leads back to,
\* and it found an id 2 hops away that is not 1 hop away.
C18_Witness ==
    /\ last.op = "get_neighbors" /\ last.n = 2
    /\ last.a \in PathEnds(last.a, 2)
    /\ last.res \ PathEnds(last.a, 1) # {}

-----------------------------------------------------------------------------
(* Further properties of resolve() *)

\* The value chat_json returned is no mapping, or one of its groups has a
\* confidence that is no number.
InvalidShape(resp) ==
    \/ resp.kind = "nondict"
    \/ /\ resp.kind = "list"
       /\ \E i \in DOMAIN resp.groups :
            resp.groups[i].dict /\ resp.groups[i].confidence = BadConf

\* C19: when chat_json returns a value of an invalid shape for a batch,
\* resolve() does not raise, the batch merges nothing, and resolve() goes
\* on to the next batch, if there is one.
C19_InvalidShapeAbsorbed ==
    [][(pc = "apply" /\ InvalidShape(response)) =>
        /\ pc' # "raised"
        /\ entities' = entities
        /\ relationships' = relationships
        /\ start' = start + max_entities_per_pass
        /\ (start' < Len(plist) => pc' = "batch")]_vars


\* An ALIAS_OF / SAME_AS relationship joining two different entities of the
\* graph, both person-like.
LiveAliasEdge(i) ==
    LET rel == relationships[i] IN
    /\ Upper(rel.relationship_type) \in {"ALIAS_OF", "SAME_AS"}
    /\ rel.source_entity_id # rel.target_entity_id
    /\ rel.source_entity_id \in DOMAIN entities
    /\ rel.target_entity_id \in DOMAIN entities
    /\ _is_person_like_entity(entities[rel.source_entity_id])
    /\ _is_person_like_entity(entities[rel.target_entity_id])

\* C17: when resolve() returns, no ALIAS_OF / SAME_AS relationship joins two
\* distinct person-like entities still in the graph: each such pair has been
\* merged into one entity.
C17_AliasPairsMerged ==
    pc = "done" => \A i \in DOMAIN relationships : ~LiveAliasEdge(i)

\* resolve() is running directly after another resolve() on the same graph,
\* and the LLM has proposed no pair it did not propose during that one.
SecondResolve ==
    /\ hist.run = 2
    /\ PairsOf(hist.proposed) \subseteq hist.prev

\* C15: a resolve() called directly after another resolve() on the same
\* graph, with the LLM proposing no merge it did not propose the first time,
\* returns with the number of entities and the number of relationships the
\* first call left.
C15_SecondResolveKeepsCounts ==
    (pc = "done" /\ SecondResolve) =>
        /\ Cardinality(DOMAIN entities) = hist.ents
        /\ Len(relationships) = hist.rels

\* Within the resolve() in progress, one batch answered (A, [B]) and another
\* batch answered (B, [C]); A, B and C were person-like entities of the graph
\* when the batches began, and no non-merge relationship joined two of them.
ChainAcrossBatches(A, B, C) ==
    /\ {A, B, C} \subseteq Range(plist)
    /\ \A x \in {A, B, C}, y \in {A, B, C} : <<x, y>> \notin blockedAtStart
    /\ \E p \in hist.proposed, q \in hist.proposed :
        /\ p[1] = A /\ p[2] = B
        /\ q[1] = B /\ q[2] = C
        /\ p[3] # q[3]

\* C20: when two different batches of one resolve() return the accepted
\* groups (A, [B]) and (B, [C]), a single entity out of A, B, C is left when
\* resolve() is done, and get_entity_by_name returns it for each of the
\* three names the entities had.
C20_ChainAcrossBatchesMerged ==
    pc = "done" =>
        \A t \in DistinctTriples :
            ChainAcrossBatches(t[1], t[2], t[3]) =>
                LET left == {t[1], t[2], t[3]} \cap DOMAIN entities IN
                /\ Cardinality(left) = 1
                /\ \A x \in {t[1], t[2], t[3]} : Lookup(hist.names[x]) \in left

-----------------------------------------------------------------------------
(* Properties of the entities' fields *)

NoRepeat(seq) == \A i \in DOMAIN seq, j \in DOMAIN seq : seq[i] = seq[j] => i = j

\* C21: in every state add_entity and merge_entities lead to, no entity's
\* alias list holds one string twice and none holds the entity's own name.
C21_AliasesOrderedSet ==
    \A id \in DOMAIN entities :
        /\ NoRepeat(entities[id].aliases)
        /\ entities[id].name \notin Range(entities[id].aliases)

\* The first cluster of two or more members that _apply_merge_groups forms
\* from an answer, and the canonical it selects for it: both are computed on
\* the graph as the batch finds it.
FirstCluster(w, resp) ==
    LET uf == CollectGroups(w, EmptyUF, _resolve_batch(resp))
        big == SelectSeq(Clusters(uf), LAMBDA c : Len(c) >= 2)
    IN  IF big = <<>> THEN <<>> ELSE Head(big)

FirstCanonical(w, resp) ==
    _select_canonical_id(w, FirstCluster(w, resp),
                         CollectGroups(w, EmptyUF, _resolve_batch(resp)).votes)

\* C22: an entity that stays in the graph stays under its id with its name,
\* no id appears but by add_entity, an entity leaves the graph only by being
\* merged into one that stays, and the canonical selected for a cluster is in
\* the graph after the merge, alone of the cluster.
C22_IdentityKept ==
    [][/\ \A id \in DOMAIN entities \cap DOMAIN entities' :
            entities'[id].name = entities[id].name
       /\ DOMAIN entities' \subseteq DOMAIN entities \cup {nextId}
       /\ \A d \in DOMAIN entities \ DOMAIN entities' :
            rep'[d] \in DOMAIN entities' \ {d}
       /\ (pc = "apply" /\ pc' # "raised") =>
            LET w == World(entities, relationships, rep) IN
            FirstCluster(w, response) # <<>> =>
                Range(FirstCluster(w, response)) \cap DOMAIN entities'
                    = {FirstCanonical(w, response)}]_vars

\* A batch has merged a cluster of three into its canonical.
C22_Witness == last.op = "resolve_batch" /\ last.n = 2

-----------------------------------------------------------------------------
(* Properties of add_relationship *)

\* C23: add_relationship(r) appends r as it is at the end of the
\* relationship sequence, which grows by exactly one, and leaves entities
\* and index as they were, also when a relationship with the same source,
\* target and type is there already or an endpoint is no entity.
C23_AppendedVerbatim ==
    [][last'.op = "add_relationship" =>
        /\ \E r \in GraphRelInputs : relationships' = Append(relationships, r)
        /\ Len(relationships') = Len(relationships) + 1
        /\ entities' = entities
        /\ index' = index]_vars

\* add_relationship has appended a second relationship with the source,
\* target and type of the first, one endpoint of which is no entity.
C23_Witness ==
    /\ last.op = "add_relationship"
    /\ Len(relationships) = 2
    /\ Triple(relationships[1]) = Triple(relationships[2])
    /\ relationships[2].target_entity_id \notin DOMAIN entities

-----------------------------------------------------------------------------
(* Properties of _apply_merge_groups *)

Absent(g, id) == IsStr(id) /\ id \notin DOMAIN g.entities

\* The merge groups without the ids that are no entity of the graph: a group
\* with such a canonical is left out, such a duplicate is taken off its list.
WithoutAbsent(g, groups) ==
    LET kept == SelectSeq(groups,
                    LAMBDA group : ~Absent(g, group.canonical_entity_id))
    IN  [i \in DOMAIN kept |->
            [kept[i] EXCEPT !.duplicate_entity_ids =
                SelectSeq(@, LAMBDA d : ~Absent(g, d))]]

\* C24: a merge group naming an id that is no entity of the graph raises
\* nothing.  The batch does what it would do for the answer without these
\* ids - the groups with an absent canonical left out, the absent duplicates
\* taken off - and the usable duplicates of a group with an absent duplicate
\* end in one entity with the group's canonical.
C24_AbsentIdsSkipped ==
    [][(pc = "apply" /\ ~InvalidShape(response)) =>
        LET w == World(entities, relationships, rep)
            groups == _resolve_batch(response)
            clean == _apply_merge_groups(w, WithoutAbsent(w, groups))
        IN  /\ pc' # "raised"
            /\ entities' = clean.entities
            /\ relationships' = clean.relationships
            /\ \A p \in AbsentDuplicates(w, response) :
                \A d \in Range(groups[p[1]].duplicate_entity_ids) :
                    (/\ IsStr(d)
                     /\ IsLivePerson(w, d)
                     /\ ~_is_non_mergeable_pair(relationships,
                            groups[p[1]].canonical_entity_id, d))
                    => rep'[d] = rep'[groups[p[1]].canonical_entity_id]]_vars

\* A batch whose answer named an absent duplicate has merged an entity.
C24_Witness ==
    last.op = "resolve_batch" /\ last.dropped >= 1 /\ last.n >= 1

\* The step is one of resolve().
ResolveStep ==
    last'.op \in {"alias_pass", "chat_json", "resolve_batch", "resolve"}

\* C25: resolve() leaves every entity that is not person-like in the graph,
\* under its id, with its name, type, aliases, description and
\* source_chunks, whatever ids the LLM names and whatever ALIAS_OF / SAME_AS
\* relationships touch it: it is neither merged away nor merged into.
C25_OnlyPersonLikeMerged ==
    [][ResolveStep =>
        \A id \in DOMAIN entities :
            ~_is_person_like_entity(entities[id]) =>
                /\ id \in DOMAIN entities'
                /\ entities'[id] = entities[id]]_vars

\* The alias pass has run on a graph in which a SAME_AS relationship joins
\* a person-like entity and one that is not, and both are still there.
C25_Witness ==
    /\ last.op = "alias_pass"
    /\ \E i \in DOMAIN relationships :
        LET rel == relationships[i] IN
        /\ Upper(rel.relationship_type) = "SAME_AS"
        /\ rel.source_entity_id \in DOMAIN entities
        /\ rel.target_entity_id \in DOMAIN entities
        /\ _is_person_like_entity(entities[rel.source_entity_id])
        /\ ~_is_person_like_entity(entities[rel.target_entity_id])

-----------------------------------------------------------------------------
(* Properties of _select_canonical_id *)

\* The components of the composite score of member id, of graph w, under
\* the merge groups of one answer.
VoteScore(w, groups, id) ==
    Cardinality({k \in DOMAIN groups :
        GroupAccepted(w, groups[k]) /\ groups[k].canonical_entity_id = id})

PersonBonus(w, id) == IF w.entities[id].entity_type = "PERSON" THEN 1 ELSE 0

RolePenalty(w, id) ==
    IF w.entities[id].name \in generic_role_terms THEN -1 ELSE 0

Degree(w, id) ==
    Cardinality({i \in DOMAIN w.relationships :
        \/ w.relationships[i].source_entity_id = id
        \/ w.relationships[i].target_entity_id = id})

\* The score of x is that of y or higher, the components compared in the
\* order votes, PERSON bonus, role penalty, degree.
ScoreAtLeast(w, groups, x, y) ==
    \/ VoteScore(w, groups, x) > VoteScore(w, groups, y)
    \/ /\ VoteScore(w, groups, x) = VoteScore(w, groups, y)
       /\ \/ PersonBonus(w, x) > PersonBonus(w, y)
          \/ /\ PersonBonus(w, x) = PersonBonus(w, y)
             /\ \/ RolePenalty(w, x) > RolePenalty(w, y)
                \/ /\ RolePenalty(w, x) = RolePenalty(w, y)
                   /\ Degree(w, x) >= Degree(w, y)

SameScore(w, groups, x, y) ==
    ScoreAtLeast(w, groups, x, y) /\ ScoreAtLeast(w, groups, y, x)

\* C26: the member of a cluster that is left as its canonical is a live
\* member with the highest composite score - votes first, then the PERSON
\* bonus, then the role penalty, then the degree - so that no member with
\* more votes than the canonical is in the cluster.
C26_HighestScoreSelected ==
    [][(pc = "apply" /\ pc' # "raised") =>
        LET w == World(entities, relationships, rep)
            groups == _resolve_batch(response)
            cluster == FirstCluster(w, response)
        IN  cluster # <<>> =>
            /\ Range(cluster) \cap DOMAIN entities' # {}
            /\ \A s \in Range(cluster) \cap DOMAIN entities',
                  m \in Range(cluster) \cap DOMAIN entities :
                /\ ScoreAtLeast(w, groups, s, m)
                /\ VoteScore(w, groups, s) >= VoteScore(w, groups, m)]_vars

\* A batch has merged the PERSON 'Kim' into the entity 'wife' of type OTHER,
\* a role name: only the votes speak for this canonical.
C26_Witness ==
    /\ last.op = "resolve_batch" /\ last.n >= 1
    /\ \E id \in DOMAIN entities :
        /\ entities[id].name = "wife"
        /\ entities[id].entity_type = "OTHER"
        /\ "Kim" \in Range(entities[id].aliases)

\* The place of member x in the order the ids entered the cluster.
PlaceIn(cluster, x) == CHOOSE i \in DOMAIN cluster : cluster[i] = x

\* C27: among the live members of a cluster with the highest score, the one
\* left as canonical is the one that entered the cluster first, whatever
\* the ids are.
C27_TieFirstSeen ==
    [][(pc = "apply" /\ pc' # "raised") =>
        LET w == World(entities, relationships, rep)
            groups == _resolve_batch(response)
            cluster == FirstCluster(w, response)
        IN  cluster # <<>> =>
            \A s \in Range(cluster) \cap DOMAIN entities',
               m \in Range(cluster) \cap DOMAIN entities :
                SameScore(w, groups, s, m) =>
                    PlaceIn(cluster, s) <= PlaceIn(cluster, m)]_vars

-----------------------------------------------------------------------------
(* The order of the passes of resolve() *)

GraphSame == entities' = entities /\ relationships' = relationships

\* C28: resolve() runs its passes in a fixed order.  The alias pass is the
\* first step and leaves no alias edge it found with both its ends in the
\* graph; a request to the LLM follows the alias pass (for the first batch)
\* or the application of the batch before it, and changes nothing in the
\* graph; the answer of a batch is applied right after its request, and the
\* next batch begins max_entities_per_pass further on.
C28_PassesInOrder ==
    [][/\ last'.op = "alias_pass" =>
            /\ pc = "idle" /\ start' = 0
            /\ \A i \in DOMAIN relationships :
                LET rel == relationships[i] IN
                (/\ IsAliasEdge(World(entities, relationships, rep), rel)
                 /\ rel.source_entity_id # rel.target_entity_id)
                => ~({rel.source_entity_id, rel.target_entity_id}
                        \subseteq DOMAIN entities')
       /\ last'.op = "chat_json" =>
            /\ last.op \in {"alias_pass", "resolve_batch"}
            /\ last.op = "alias_pass" => start = 0
            /\ last.op = "resolve_batch" => start >= max_entities_per_pass
            /\ start < Len(plist)
            /\ GraphSame /\ start' = start
       /\ last'.op = "resolve_batch" =>
            /\ last.op = "chat_json"
            /\ pc' # "raised" => start' = start + max_entities_per_pass
       /\ last'.op = "resolve" =>
            /\ last.op \in {"alias_pass", "resolve_batch"}
            /\ GraphSame]_vars

\* The request for the second batch has been answered, and the first batch
\* has taken an entity out of the graph.
C28_Witness ==
    /\ last.op = "chat_json"
    /\ start = max_entities_per_pass
    /\ Cardinality(DOMAIN entities) < Cardinality(startIds)

\* ceil(n / max_entities_per_pass)
Batches(n) == (n + max_entities_per_pass - 1) \div max_entities_per_pass

\* C29: resolve() ends having called chat_json once for each batch of the
\* person-like entities left after the alias pass - ceil(n / batch size)
\* calls for n >= 2 of them, whatever the calls did - and not at all for
\* fewer than 2; while it runs, the batch in hand begins inside the list.
C29_OneCallPerBatch ==
    /\ pc \in {"done", "raised"} =>
        hist.calls = IF Len(plist) < 2 THEN 0 ELSE Batches(Len(plist))
    /\ pc \in {"batch", "apply"} => start < Len(plist)

\* C30: the batches of one resolve() partition the entities that are
\* person-like after the alias pass: no batch holds more than
\* max_entities_per_pass of them, every batch but the last holds exactly
\* that many, no entity is in two batches, and when resolve() ends every
\* one of them has been in a batch.
C30_BatchesPartition ==
    /\ \A b \in hist.batches :
        /\ Len(b[2]) <= max_entities_per_pass
        /\ b[1] + max_entities_per_pass < Len(plist)
            => Len(b[2]) = max_entities_per_pass
    /\ \A b1 \in hist.batches, b2 \in hist.batches :
        b1 # b2 => Range(b1[2]) \cap Range(b2[2]) = {}
    /\ (pc \in {"done", "raised"} /\ Len(plist) >= 2) =>
        \A id \in Range(plist) : \E b \in hist.batches : id \in Range(b[2])

-----------------------------------------------------------------------------
(* Properties of the signal miner and of the request *)

GraphState == <<entities, relationships, index>>

\* C31: signal mining is pure.  A call of _collect_merge_signals and the
\* whole of _resolve_batch (payload, candidate signals, prompt, LLM call)
\* leave entities, relationships and index as they are; a step of resolve()
\* that changes one of them is the alias pass or the application of a
\* batch's merge groups.
C31_MiningIsPure ==
    [][/\ last'.op \in {"collect_merge_signals", "chat_json"}
            => GraphState' = GraphState
       /\ (/\ last'.op \in {"alias_pass", "chat_json", "resolve_batch",
                            "resolve", "collect_merge_signals"}
           /\ GraphState' # GraphState)
            => last'.op \in {"alias_pass", "resolve_batch"}]_vars

\* A request with an evidence section was built on a graph that holds a
\* relationship with an end that is no entity.
C31_Witness ==
    /\ last.op = "chat_json"
    /\ Len(request) = 2
    /\ \E i \in DOMAIN relationships :
          relationships[i].target_entity_id \notin DOMAIN entities

\* _collect_merge_signals has just been called on a list of entities.
Mined == last.op = "collect_merge_signals"

\* Some relationship joins x and n, in either direction.
Linked(x, n) ==
    \E i \in DOMAIN relationships :
        \/ /\ relationships[i].source_entity_id = x
           /\ relationships[i].target_entity_id = n
        \/ /\ relationships[i].source_entity_id = n
           /\ relationships[i].target_entity_id = x

\* The entities other than x and y that are one relationship away from both.
SharedEvidence(x, y) ==
    {n \in DOMAIN entities \ {x, y} : Linked(x, n) /\ Linked(y, n)}

\* Some configured bucket has a term in the text of x and a term in the
\* text of y.
RoleEvidence(x, y) ==
    \E b \in DOMAIN role_buckets :
        /\ role_buckets[b].terms \cap TextWords(entities[x]) # {}
        /\ role_buckets[b].terms \cap TextWords(entities[y]) # {}

Evidence(x, y) ==
    \/ SharedEvidence(x, y) # {}
    \/ Linked(x, y)
    \/ RoleEvidence(x, y)
    \/ entities[x].source_chunks \cap entities[y].source_chunks # {}

\* The bundles of sigs that are about x and y, whichever is left.
BundlesOf(sigs, x, y) ==
    {k \in DOMAIN sigs : {sigs[k].left_id, sigs[k].right_id} = {x, y}}

\* C32: for a list of n entities _collect_merge_signals returns at most
\* n(n-1)/2 bundles, none about an entity and itself, no two about the same
\* two entities, and two entities of the list have a bundle if and only if
\* they share a neighbor, are joined by a relationship, have a term of one
\* role bucket in both texts, or share a source chunk.
C32_OneBundlePerPair ==
    Mined =>
        LET ids == last.res.ids
            sigs == last.res.signals
        IN  /\ 2 * Len(sigs) <= Len(ids) * (Len(ids) - 1)
            /\ \A k \in DOMAIN sigs :
                  /\ sigs[k].left_id # sigs[k].right_id
                  /\ {sigs[k].left_id, sigs[k].right_id} \subseteq Range(ids)
            /\ \A k \in DOMAIN sigs : \A m \in DOMAIN sigs :
                  k # m => {sigs[k].left_id, sigs[k].right_id}
                                # {sigs[m].left_id, sigs[m].right_id}
            /\ \A i \in DOMAIN ids : \A j \in DOMAIN ids :
                  i < j => (BundlesOf(sigs, ids[i], ids[j]) # {}
                                <=> Evidence(ids[i], ids[j]))

\* C33: the shared_neighbors of a bundle are exactly the entities, other
\* than left and right, that are one relationship away from both, which is
\* get_neighbors(left, 1) intersected with get_neighbors(right, 1); each is
\* listed by its name; the pair taken as (right, left) gives the same
\* entities; and a pair that shares a neighbor has a bundle.
C33_SharedNeighbors ==
    Mined =>
        LET ids == last.res.ids
            sigs == last.res.signals
            g == World(entities, relationships, rep)
        IN  /\ \A k \in DOMAIN sigs :
                LET l == sigs[k].left_id
                    r == sigs[k].right_id
                IN  /\ DOMAIN sigs[k].shared_neighbors = SharedEvidence(l, r)
                    /\ SharedEvidence(l, r) =
                          ((get_neighbors(relationships, l, 1)
                                \cap get_neighbors(relationships, r, 1))
                            \cap DOMAIN entities) \ {l, r}
                    /\ \A n \in DOMAIN sigs[k].shared_neighbors :
                          sigs[k].shared_neighbors[n].neighbor_name
                                = entities[n].name
                    /\ DOMAIN SharedNeighbors(g, r, l) = SharedEvidence(l, r)
            /\ \A i \in DOMAIN ids : \A j \in DOMAIN ids :
                  (i < j /\ SharedEvidence(ids[i], ids[j]) # {})
                        => BundlesOf(sigs, ids[i], ids[j]) # {}

\* Of three entities mined, two share a neighbor and have a bundle that
\* lists it, and two have a bundle without shared neighbors.
C33_Witness ==
    /\ Mined
    /\ Len(last.res.ids) = 3
    /\ \E k \in DOMAIN last.res.signals :
          DOMAIN last.res.signals[k].shared_neighbors # {}
    /\ \E k \in DOMAIN last.res.signals :
          DOMAIN last.res.signals[k].shared_neighbors = {}

\* C34: two entities of the list have the same_role_bucket signal if and
\* only if some configured bucket has a term in the name and description
\* text of both, whatever other buckets their texts match.
C34_SameRoleBucket ==
    Mined =>
        LET ids == last.res.ids
            sigs == last.res.signals
        IN  \A i \in DOMAIN ids : \A j \in DOMAIN ids :
                i < j =>
                    ((\E k \in BundlesOf(sigs, ids[i], ids[j]) :
                            sigs[k].same_role_bucket # NoBucket)
                        <=> RoleEvidence(ids[i], ids[j]))

\* The parts of the request in flight that are evidence sections.
EvidenceParts == {i \in DOMAIN request : request[i].part = "evidence"}

\* One of the four signals is found for the objects x and y of the list.
SignalFound(x, y) ==
    \/ SharedEvidence(x, y) # {}
    \/ Linked(x, y)
    \/ SameRoleBucket(objects[x], objects[y]) # NoBucket
    \/ objects[x].source_chunks \cap objects[y].source_chunks # {}

\* C35: the request sent for a batch starts with the payload of the batch,
\* one entry per entity; it has the evidence section if and only if the
\* miner returns at least one bundle for the batch, which is when two
\* entities of the batch have one of the four signals; and the section is
\* the list of bundles the miner returns, nothing else.
C35_EvidenceSection ==
    pc = "apply" =>
        LET batch == Batch(plist, start)
            mined == _collect_merge_signals(
                        World(entities, relationships, rep), objects, batch)
        IN  /\ Len(request) \in {1, 2}
            /\ request[1].part = "payload"
            /\ [i \in DOMAIN request[1].body |-> request[1].body[i].entity_id]
                    = batch
            /\ EvidenceParts # {} <=> mined # <<>>
            /\ EvidenceParts # {} <=>
                    \E i \in DOMAIN batch : \E j \in DOMAIN batch :
                        i < j /\ SignalFound(batch[i], batch[j])
            /\ \A i \in EvidenceParts : i = 2 /\ request[i].body = mined

\* The request of a second batch carries the evidence section.
C35_Witness ==
    /\ pc = "apply"
    /\ start > 0
    /\ EvidenceParts # {}

-----------------------------------------------------------------------------
(* Properties of the batches of resolve() *)

\* The pairs (canonical, duplicate) of the answer in hand that are accepted
\* on the graph as it is: the group is a mapping at or above min_confidence
\* with a list of duplicates, both ids are strings of live person-like
\* entities, and no non-merge relationship joins the two.
AcceptedPairs ==
    UNION {{<<response.groups[i].canonical_entity_id, d>> :
                d \in {x \in Range(response.groups[i].duplicate_entity_ids) :
                        /\ IsStr(x)
                        /\ x \in DOMAIN entities
                        /\ _is_person_like_entity(entities[x])
                        /\ ~_is_non_mergeable_pair(relationships,
                                response.groups[i].canonical_entity_id, x)}} :
            i \in {j \in DOMAIN response.groups :
                    /\ response.kind = "list"
                    /\ response.groups[j].dict
                    /\ response.groups[j].confidence >= min_confidence
                    /\ response.groups[j].dupsIsList
                    /\ IsStr(response.groups[j].canonical_entity_id)
                    /\ response.groups[j].canonical_entity_id \in DOMAIN entities
                    /\ _is_person_like_entity(
                            entities[response.groups[j].canonical_entity_id])}}

\* C36: clustering is sound.  Two entities that a batch leaves merged into
\* one are linked by a chain of accepted (canonical, duplicate) pairs of
\* that batch's answer.
C36_ClusteringSound ==
    [][(pc = "apply" /\ pc' # "raised") =>
        \A x \in DOMAIN entities : \A y \in DOMAIN entities :
            (x # y /\ rep'[x] = rep'[y]) => y \in Reach(AcceptedPairs, {x})]_vars

\* A batch answered with two groups has merged two entities into a third.
C36_Witness ==
    /\ last.op = "resolve_batch"
    /\ last.tag = "list"
    /\ last.n = 2
    /\ last.ret = 0
    /\ last.dropped = 0

\* The entities present when resolve() began that have since been merged
\* away, one for each merge_entities call that returned true.
MergedAway == {i \in startIds : rep[i] # i}

\* C37: resolve() creates nothing.  While it runs the entity ids are among
\* those present when it began, no step of it leaves more relationships
\* than it found, and when it ends the number of entities is the number at
\* its start less the number of merge_entities calls that returned true.
C37_NothingCreated ==
    [][/\ pc' # "idle" => DOMAIN entities' \subseteq startIds'
       /\ ResolveStep =>
            /\ Len(relationships') <= Len(relationships)
            /\ DOMAIN entities' \subseteq DOMAIN entities
       /\ pc' \in {"done", "raised"} =>
            /\ MergedAway' = startIds' \ DOMAIN entities'
            /\ Cardinality(DOMAIN entities')
                = Cardinality(startIds') - Cardinality(MergedAway')]_vars

\* resolve() has ended after merging one entity in the alias pass and one
\* in a batch.
C37_Witness ==
    /\ pc = "done"
    /\ Cardinality(MergedAway) = 2
    /\ last.op = "resolve_batch"
    /\ last.n = 1

\* The entity ids the payload of a request describes.
PayloadIds(req) == {req[1].body[i].entity_id : i \in DOMAIN req[1].body}

\* The entities of the graph that the step merges away or changes.
Touched ==
    {x \in DOMAIN entities : x \notin DOMAIN entities' \/ entities'[x] # entities[x]}

\* C38 as stated: the merges a batch applies touch members of that batch
\* only, and every entity a request describes is in the graph when the
\* request is sent.
C38_OnlyBatchMembers ==
    [][/\ (pc = "apply" /\ pc' # "raised") => Touched \subseteq PayloadIds(request)
       /\ pc' = "apply" => PayloadIds(request') \subseteq DOMAIN entities']_vars

\* The ids the accepted pairs of the answer in hand name.
AcceptedIds == {p[1] : p \in AcceptedPairs} \cup {p[2] : p \in AcceptedPairs}

\* C38, amended: the merges a batch applies touch only entities that are in
\* the graph and person-like when the answer is applied and that an accepted
\* pair of the answer names, members of the batch or not; and an entity that
\* a request describes is one of the list built at the start of resolve(),
\* in the graph when the request is sent or merged by an earlier batch into
\* an entity that is.
C38_OnlyLiveNamed ==
    [][/\ (pc = "apply" /\ pc' # "raised") =>
            /\ Touched \subseteq AcceptedIds
            /\ \A x \in Touched : _is_person_like_entity(entities[x])
       /\ pc' = "apply" =>
            \A id \in PayloadIds(request') :
                /\ id \in Range(plist') /\ id \in startIds'
                /\ id \notin DOMAIN entities' =>
                      /\ start' > 0
                      /\ rep'[id] # id
                      /\ rep'[id] \in DOMAIN entities']_vars

\* The request of a second batch describes an entity that the first batch
\* merged away.
C38_Witness ==
    /\ pc = "apply"
    /\ start > 0
    /\ PayloadIds(request) \ DOMAIN entities # {}

-----------------------------------------------------------------------------
(* Names at add time *)

\* C39: no name is lost at add time.  After add_entity(e) has returned id
\* i, get_entity_by_name(e.name) returns entity i, whether e was inserted,
\* absorbed because its name matched, or absorbed because one of its aliases
\* matched.
C39_NameKept ==
    last.op = "add_entity" => Lookup(last.arg.name) = last.ret

=============================================================================
